---- MODULE Spec2Model ----
(***************************************************************************)
(* Model of the turn-based hex strategy engine (src/src/game).             *)
(*                                                                         *)
(* The engine state (GameEngine, engine.rs:118-130) is the set of          *)
(* variables below.  One action, Act, models a whole call of               *)
(* GameEngine::act(player_id, action): validation of the call, the         *)
(* handler, recount_region_info, check_for_active_players and the final    *)
(* self-validation.  A Rust panic (failed unwrap, missing map key,         *)
(* failed expect) aborts the call: it is recorded as result.kind = "Panic", *)
(* the variables show the engine as the panic left it, and the engine is   *)
(* not used any more.  A call that returned leaves its Result in the      *)
(* variable result until the caller takes it (Return); act() borrows the   *)
(* engine mutably, so calls never overlap.                                 *)
(*                                                                         *)
(* HashMap / HashSet iteration order is unspecified in Rust.  Where the    *)
(* order decides the outcome (which capital is kept or created, which      *)
(* part of a split region keeps the old id) the model takes every order.   *)
(* Where it only decides which fresh id a new unit gets, the model         *)
(* issues the ids in coordinate order: the outcomes differ by a renaming   *)
(* of fresh ids only.                                                      *)
(***************************************************************************)
EXTENDS Integers, Sequences, FiniteSets, TLC

VARIABLES
    players,            \* Vec<Player>: sequence of player ids
    player_activity,    \* HashMap<ID, bool>
    winner,             \* Option<ID>, NO_ID for None
    current_turn,       \* u32
    active_player_num,  \* usize, 0-based index into players
    map,                \* Location.map: Coord -> Tile
    regions,            \* Location.regions: ID -> Region
    coordinate_to_region, \* Location.coordinate_to_region: Coord -> ID
    region_info,        \* HashMap<ID, RegionInfo>
    unit_info,          \* HashMap<ID, UnitInfo>
    id_producer,        \* IdProducer.last_issued_id
    call,               \* the act() call that returned last: caller and action
    result              \* what that call returned, until the caller took it

vars == <<players, player_activity, winner, current_turn, active_player_num,
          map, regions, coordinate_to_region, region_info, unit_info,
          id_producer, call, result>>

-----------------------------------------------------------------------------
(* Bounds of the model *)

\* act() is not called any more once this many ids were issued
MaxId == 16
\* act() is not called any more once the turn counter reached this value
MaxTurn == 3

-----------------------------------------------------------------------------
(* consts.rs *)

NO_ID == 0

MIN_CONTROLLED_REGION_SIZE == 2
EMPTY_TILE_DEFENCE == 0
EMPTY_TILE_INCOME == 1
CONTROLLED_REGION_STARTING_MONEY == 10
MIN_LOCATION_LAND_COVERAGE_PCT == 50
STANDARD_MOVES_NUM == 4

\* upgrades_to is the name of the next description, "None" for Option::None
GRAVE ==
    [name |-> "Grave", is_replaceable |-> TRUE, is_purchasable |-> FALSE,
     purchase_cost |-> 0, turn_cost |-> 0, max_moves |-> 0, defence |-> 0,
     attack |-> 0, upgrade_levels |-> 0, upgrades_to |-> "None"]

PINE_TREE ==
    [name |-> "PineTree", is_replaceable |-> TRUE, is_purchasable |-> FALSE,
     purchase_cost |-> 0, turn_cost |-> 1, max_moves |-> 0, defence |-> 0,
     attack |-> 0, upgrade_levels |-> 0, upgrades_to |-> "None"]

PALM_TREE ==
    [name |-> "PalmTree", is_replaceable |-> TRUE, is_purchasable |-> FALSE,
     purchase_cost |-> 0, turn_cost |-> 1, max_moves |-> 0, defence |-> 0,
     attack |-> 0, upgrade_levels |-> 0, upgrades_to |-> "None"]

VILLAGE ==
    [name |-> "Village", is_replaceable |-> FALSE, is_purchasable |-> FALSE,
     purchase_cost |-> 0, turn_cost |-> 0, max_moves |-> 0, defence |-> 1,
     attack |-> 0, upgrade_levels |-> 0, upgrades_to |-> "None"]

TOWER ==
    [name |-> "Tower", is_replaceable |-> FALSE, is_purchasable |-> TRUE,
     purchase_cost |-> 15, turn_cost |-> 0, max_moves |-> 0, defence |-> 2,
     attack |-> 0, upgrade_levels |-> 0, upgrades_to |-> "None"]

GREAT_KNIGHT ==
    [name |-> "GreatKnight", is_replaceable |-> FALSE, is_purchasable |-> TRUE,
     purchase_cost |-> 40, turn_cost |-> 54, max_moves |-> STANDARD_MOVES_NUM,
     defence |-> 3, attack |-> 4, upgrade_levels |-> 4, upgrades_to |-> "None"]

KNIGHT ==
    [name |-> "Knight", is_replaceable |-> FALSE, is_purchasable |-> TRUE,
     purchase_cost |-> 30, turn_cost |-> 18, max_moves |-> STANDARD_MOVES_NUM,
     defence |-> 3, attack |-> 3, upgrade_levels |-> 3,
     upgrades_to |-> "GreatKnight"]

SOLDIER ==
    [name |-> "Soldier", is_replaceable |-> FALSE, is_purchasable |-> TRUE,
     purchase_cost |-> 20, turn_cost |-> 6, max_moves |-> STANDARD_MOVES_NUM,
     defence |-> 2, attack |-> 2, upgrade_levels |-> 2,
     upgrades_to |-> "Knight"]

MILITIA ==
    [name |-> "Militia", is_replaceable |-> FALSE, is_purchasable |-> TRUE,
     purchase_cost |-> 10, turn_cost |-> 2, max_moves |-> STANDARD_MOVES_NUM,
     defence |-> 1, attack |-> 1, upgrade_levels |-> 1,
     upgrades_to |-> "Soldier"]

UnitType ==
    {"Grave", "PineTree", "PalmTree", "Village", "Tower", "GreatKnight",
     "Knight", "Soldier", "Militia"}

-----------------------------------------------------------------------------
(* unit.rs: unit catalog and combat rules *)

description(unit_type) ==
    CASE unit_type = "Grave" -> GRAVE
      [] unit_type = "PineTree" -> PINE_TREE
      [] unit_type = "PalmTree" -> PALM_TREE
      [] unit_type = "Village" -> VILLAGE
      [] unit_type = "Tower" -> TOWER
      [] unit_type = "GreatKnight" -> GREAT_KNIGHT
      [] unit_type = "Knight" -> KNIGHT
      [] unit_type = "Soldier" -> SOLDIER
      [] unit_type = "Militia" -> MILITIA

\* the flag engine.rs:895 reads as is_unownable (graves and trees)
is_unownable(d) == d.is_replaceable

can_defeat(attacker, defender) ==
    description(attacker).attack > description(defender).defence

\* Option<UnitType> as a string, "None" for Option::None.
\* walk `levels` steps along the upgrade chain that starts at `from`
RECURSIVE walk_upgrades(_, _)
walk_upgrades(from, levels) ==
    IF from = "None" THEN "None"
    ELSE IF levels = 0 THEN from
    ELSE walk_upgrades(description(from).upgrades_to, levels - 1)

merge_result(actor, goal) ==
    IF is_unownable(description(goal)) THEN actor
    ELSE IF description(goal).upgrades_to # "None"
         THEN IF description(actor).upgrade_levels = 0 THEN "None"
              ELSE walk_upgrades(goal, description(actor).upgrade_levels)
         ELSE "None"

\* UnitInfo::new: a new unit has no moves
NewUnitInfo(unit_type) == [unit_type |-> unit_type, moves_left |-> 0]

\* UnitInfo::refill_moves
RefilledInfo(info) ==
    [info EXCEPT !.moves_left = description(info.unit_type).max_moves]

-----------------------------------------------------------------------------
(* location.rs: coordinates, tiles, regions *)

\* hex2d Coordinate<i32> as <<x, y>>
Coord(x, y) == <<x, y>>

neighbors(c) ==
    {<<c[1], c[2] + 1>>, <<c[1] + 1, c[2]>>, <<c[1] + 1, c[2] - 1>>,
     <<c[1], c[2] - 1>>, <<c[1] - 1, c[2]>>, <<c[1] - 1, c[2] + 1>>}

\* Option<Unit>::None
NoUnit == [id |-> NO_ID, unit_type |-> "None"]

Unit(id, unit_type) == [id |-> id, unit_type |-> unit_type]

Tile(surface) == [surface |-> surface, unit |-> NoUnit]

Region(owner, coordinates) == [owner |-> owner, coordinates |-> coordinates]

\* Location struct as a value
Loc(m, r, c2r) == [map |-> m, regions |-> r, coordinate_to_region |-> c2r]

\* Location::region_at: NO_ID when there is no region (Option::None)
region_id_at(loc, c) ==
    IF c \in DOMAIN loc.coordinate_to_region
       /\ loc.coordinate_to_region[c] \in DOMAIN loc.regions
    THEN loc.coordinate_to_region[c]
    ELSE NO_ID

\* Location::tile_at(c).is_some()
has_tile(loc, c) == c \in DOMAIN loc.map

\* BfsIter: coordinates reached from `start` through tiles of the map that
\* are in `allowed` (the predicate), layer by layer.
RECURSIVE bfs_reach(_, _, _, _)
bfs_reach(loc, allowed, frontier, seen) ==
    IF frontier = {} THEN seen
    ELSE LET next == {n \in UNION {neighbors(c) : c \in frontier} :
                        n \notin seen /\ has_tile(loc, n) /\ n \in allowed}
         IN  bfs_reach(loc, allowed, next, seen \cup next)

bfs_set(loc, start, allowed) ==
    IF start \in allowed /\ has_tile(loc, start)
    THEN bfs_reach(loc, allowed, {start}, {start})
    ELSE {}

\* Location::bfs_distance: -1 for Option::None
RECURSIVE bfs_dist(_, _, _, _, _, _)
bfs_dist(loc, allowed, to, frontier, seen, d) ==
    IF to \in frontier THEN d
    ELSE IF frontier = {} THEN -1
    ELSE LET next == {n \in UNION {neighbors(c) : c \in frontier} :
                        n \notin seen /\ has_tile(loc, n) /\ n \in allowed}
         IN  bfs_dist(loc, allowed, to, next, seen \cup next, d + 1)

bfs_distance(loc, from, to, allowed) ==
    IF from \in allowed /\ has_tile(loc, from)
    THEN bfs_dist(loc, allowed, to, {from}, {from}, 0)
    ELSE -1

-----------------------------------------------------------------------------
(* Map helpers *)

\* HashMap::insert and HashMap::remove
Put(f, k, v) == (k :> v) @@ f
Del(f, k) == [x \in DOMAIN f \ {k} |-> f[x]]

unit_at(loc, c) == loc.map[c].unit
has_unit(loc, c) == loc.map[c].unit # NoUnit
is_land(loc, c) == loc.map[c].surface = "Land"
is_water(loc, c) == loc.map[c].surface = "Water"

LandCoords(loc) == {c \in DOMAIN loc.map : is_land(loc, c)}

-----------------------------------------------------------------------------
(* location.rs: Location::validate; rules.rs: validate_location,           *)
(* validate_regions.  TRUE stands for Ok(()), FALSE for any Err.           *)

\* no coordinate is claimed by two regions
NoIntersectingRegions(loc) ==
    \A r1, r2 \in DOMAIN loc.regions :
        r1 # r2 => loc.regions[r1].coordinates \cap loc.regions[r2].coordinates = {}

\* every region is connected; the BFS starts from an arbitrary coordinate of
\* the region, and the verdict does not depend on which one
NoSplitRegions(loc) ==
    \A r \in DOMAIN loc.regions :
        LET coords == loc.regions[r].coordinates IN
        coords # {} =>
            LET c == CHOOSE x \in coords : TRUE
            IN  coords \subseteq bfs_set(loc, c, coords)

\* no two regions of one owner share a border; the walk covers the part of
\* the map connected to an arbitrary start tile (the whole map when the map
\* is connected, as every map of this model is)
NoSameOwnerBorderingRegions(loc) ==
    LET start == CHOOSE c \in DOMAIN loc.map : TRUE
        walked == bfs_set(loc, start, DOMAIN loc.map)
    IN  \A coord \in walked :
            LET r == region_id_at(loc, coord) IN
            r # NO_ID =>
                \A n \in neighbors(coord) :
                    LET nr == region_id_at(loc, n) IN
                    nr # NO_ID =>
                        ~(r # nr /\ loc.regions[r].owner = loc.regions[nr].owner)

LocationValidate(loc) ==
    /\ NoIntersectingRegions(loc)
    /\ NoSplitRegions(loc)
    /\ NoSameOwnerBorderingRegions(loc)

\* land is covered with regions, water is not
CoveredWithRegions(loc) ==
    \A c \in DOMAIN loc.map :
        /\ ~(is_land(loc, c) /\ region_id_at(loc, c) = NO_ID)
        /\ ~(is_water(loc, c) /\ region_id_at(loc, c) # NO_ID)

\* one piece of land covering at least MIN_LOCATION_LAND_COVERAGE_PCT
LandIsOk(loc) ==
    /\ LandCoords(loc) # {}
    /\ LET first_land == CHOOSE c \in LandCoords(loc) : TRUE
           land == bfs_set(loc, first_land, LandCoords(loc))
       IN  /\ LandCoords(loc) \subseteq land
           /\ ~(MIN_LOCATION_LAND_COVERAGE_PCT >
                  (Cardinality(land) * 100) \div Cardinality(DOMAIN loc.map))

NoMisplacedUnit(loc) ==
    \A c \in DOMAIN loc.map : ~(has_unit(loc, c) /\ is_water(loc, c))

\* coordinates of the region that hold a Village
Capitals(loc, rid) ==
    {c \in loc.regions[rid].coordinates : unit_at(loc, c).unit_type = "Village"}

\* a capital check that only refuses a second Village
OneCapitalPerRegion_AtMostOne(loc) ==
    \A r \in DOMAIN loc.regions :
        Cardinality(loc.regions[r].coordinates) >= MIN_CONTROLLED_REGION_SIZE
            => Cardinality(Capitals(loc, r)) <= 1

OneCapitalPerRegion(loc) ==
    \A r \in DOMAIN loc.regions :
        Cardinality(loc.regions[r].coordinates) >= MIN_CONTROLLED_REGION_SIZE
            => Cardinality(Capitals(loc, r)) = 1

validate_location(loc) ==
    /\ LocationValidate(loc)
    /\ CoveredWithRegions(loc)
    /\ LandIsOk(loc)
    /\ NoMisplacedUnit(loc)
    /\ OneCapitalPerRegion(loc)

\* validate_regions: the owners that have some region, and those that have
\* a region of the minimum size or a region with a unit
RegionOwners(loc) == {loc.regions[r].owner : r \in DOMAIN loc.regions}

RegionIsActiveForRules(loc, r) ==
    \/ Cardinality(loc.regions[r].coordinates) >= MIN_CONTROLLED_REGION_SIZE
    \/ \E c \in loc.regions[r].coordinates : has_unit(loc, c)

validate_regions(loc, active_players) ==
    LET player_is_active ==
            [o \in RegionOwners(loc) |->
                \E r \in DOMAIN loc.regions :
                    loc.regions[r].owner = o /\ RegionIsActiveForRules(loc, r)]
    IN  /\ \A p \in active_players : p \in DOMAIN player_is_active
        /\ \A id \in DOMAIN player_is_active :
              /\ ~(~player_is_active[id] /\ id \in active_players)
              /\ ~(player_is_active[id] /\ id \notin active_players)


-----------------------------------------------------------------------------
(* engine.rs: the engine as a value.  The operators below take and return  *)
(* a record `e` with the fields of GameEngine (the Location fields map,    *)
(* regions and coordinate_to_region inlined) and a flag `panic` that is    *)
(* set when the code panics; a panicked engine is left as it is by every   *)
(* later step.  Operators whose outcome depends on iteration order return  *)
(* the set of possible engines.                                            *)

Panic(e) == [e EXCEPT !.panic = TRUE]

\* apply Step(x) to every engine of the set, skipping panicked ones
Then(es, Step(_)) == UNION {IF x.panic THEN {x} ELSE Step(x) : x \in es}

\* i32 division truncates toward zero
tdiv(a, b) == IF a >= 0 THEN a \div b ELSE 0 - ((0 - a) \div b)

\* RegionInfo::new
RegionInfo(money_balance) ==
    [money_balance |-> money_balance, income_from_fields |-> 0,
     maintenance_cost |-> 0]

RECURSIVE SumOver(_, _)
SumOver(S, f) ==
    IF S = {} THEN 0
    ELSE LET x == CHOOSE y \in S : TRUE IN f[x] + SumOver(S \ {x}, f)

\* RegionInfo::recount for one region
recount(e, info, rid) ==
    LET coords == e.regions[rid].coordinates
        cost == [c \in coords |->
                    IF has_unit(e, c)
                    THEN description(unit_at(e, c).unit_type).turn_cost
                    ELSE 0]
    IN  [info EXCEPT !.income_from_fields = Cardinality(coords) * EMPTY_TILE_INCOME,
                     !.maintenance_cost = SumOver(coords, cost)]

\* GameEngine::recount_region_info; tile_at(c).unwrap() and
\* region_info.get_mut(id).unwrap() panic on a missing key
recount_region_info(e) ==
    IF e.panic THEN e
    ELSE IF \/ \E r \in DOMAIN e.regions : r \notin DOMAIN e.region_info
            \/ \E r \in DOMAIN e.regions :
                  \E c \in e.regions[r].coordinates : ~has_tile(e, c)
    THEN Panic(e)
    ELSE [e EXCEPT !.region_info =
            [r \in DOMAIN e.region_info |->
                IF r \in DOMAIN e.regions
                THEN recount(e, e.region_info[r], r)
                ELSE e.region_info[r]]]

\* a region that keeps its owner in the game (check_for_active_players)
RegionCountsAsActive(e, r) ==
    LET coords == e.regions[r].coordinates IN
    IF Cardinality(coords) < MIN_CONTROLLED_REGION_SIZE
    THEN \E c \in coords :
            /\ has_unit(e, c)
            /\ description(unit_at(e, c).unit_type).max_moves # 0
    ELSE TRUE

\* an activity check that leaves the balances of an inactive player alone
check_for_active_players_KeepsMoney(e) ==
    IF e.panic THEN e
    ELSE IF \E r \in DOMAIN e.regions : e.regions[r].coordinates = {}
    THEN Panic(e)
    ELSE
    LET set_inactive ==
            {id \in DOMAIN e.player_activity :
                /\ e.player_activity[id]
                /\ ~\E r \in DOMAIN e.regions :
                      e.regions[r].owner = id /\ RegionCountsAsActive(e, r)}
        hit == {r \in DOMAIN e.regions : e.regions[r].owner \in set_inactive}
    IN  IF set_inactive = {} THEN e
        ELSE IF \E r \in hit : r \notin DOMAIN e.region_info THEN Panic(e)
        ELSE [e EXCEPT
                !.player_activity =
                    [id \in DOMAIN e.player_activity |->
                        IF id \in set_inactive THEN FALSE
                        ELSE e.player_activity[id]],
                !.region_info =
                    [r \in DOMAIN e.region_info |->
                        e.region_info[r]]]

\* GameEngine::check_for_active_players; an empty region makes
\* coordinates().iter().next().unwrap() panic
check_for_active_players(e) ==
    IF e.panic THEN e
    ELSE IF \E r \in DOMAIN e.regions : e.regions[r].coordinates = {}
    THEN Panic(e)
    ELSE
    LET set_inactive ==
            {id \in DOMAIN e.player_activity :
                /\ e.player_activity[id]
                /\ ~\E r \in DOMAIN e.regions :
                      e.regions[r].owner = id /\ RegionCountsAsActive(e, r)}
        hit == {r \in DOMAIN e.regions : e.regions[r].owner \in set_inactive}
    IN  IF set_inactive = {} THEN e
        ELSE IF \E r \in hit : r \notin DOMAIN e.region_info THEN Panic(e)
        ELSE [e EXCEPT
                !.player_activity =
                    [id \in DOMAIN e.player_activity |->
                        IF id \in set_inactive THEN FALSE
                        ELSE e.player_activity[id]],
                !.region_info =
                    [r \in DOMAIN e.region_info |->
                        IF r \in hit
                        THEN [e.region_info[r] EXCEPT !.money_balance = 0]
                        ELSE e.region_info[r]]]

\* ids of the units standing on tiles
MapUnitIds(e) == {unit_at(e, c).id : c \in {x \in DOMAIN e.map : has_unit(e, x)}}

\* a consistency check that looks at the regions only
validate_internal_consistency_RegionsOnly(e) ==
    DOMAIN e.region_info = DOMAIN e.regions

\* GameEngine::validate_internal_consistency
validate_internal_consistency(e) ==
    /\ DOMAIN e.region_info = DOMAIN e.regions
    /\ \A c1, c2 \in DOMAIN e.map :
          (has_unit(e, c1) /\ has_unit(e, c2) /\ c1 # c2)
              => unit_at(e, c1).id # unit_at(e, c2).id
    /\ MapUnitIds(e) = DOMAIN e.unit_info

ActivePlayers(e) ==
    {e.players[i] : i \in {j \in 1..Len(e.players) : e.player_activity[e.players[j]]}}

\* GameEngine::validate
validate(e) ==
    /\ validate_location(e)
    /\ validate_regions(e, ActivePlayers(e))
    /\ validate_internal_consistency(e)


-----------------------------------------------------------------------------
(* Units on the map *)

SetUnit(e, c, u) == [e EXCEPT !.map[c].unit = u]

\* GameEngine::maybe_remove_unit: remove_unit(c).unwrap() panics off the
\* map, unit_info.remove(id).unwrap() panics when the unit has no info
maybe_remove_unit(e, c) ==
    IF e.panic THEN e
    ELSE IF ~has_tile(e, c) THEN Panic(e)
    ELSE IF ~has_unit(e, c) THEN e
    ELSE LET id == unit_at(e, c).id
             taken == SetUnit(e, c, NoUnit)
         IN  IF id \notin DOMAIN e.unit_info THEN Panic(taken)
             ELSE [taken EXCEPT !.unit_info = Del(e.unit_info, id)]

\* maybe_remove_unit(c).unwrap(): there must be a unit
remove_unit_unwrap(e, c) ==
    IF e.panic THEN e
    ELSE IF has_tile(e, c) /\ ~has_unit(e, c) THEN Panic(e)
    ELSE maybe_remove_unit(e, c)

\* GameEngine::create_and_place_unit(..).unwrap(): the id is taken and the
\* info inserted before the tile is looked up
create_and_place_unit(e, unit_type, c) ==
    IF e.panic THEN e
    ELSE LET id == e.id_producer + 1
             made == [e EXCEPT !.id_producer = id,
                               !.unit_info = Put(e.unit_info, id, NewUnitInfo(unit_type))]
         IN  IF ~has_tile(e, c) THEN Panic(made)
             ELSE SetUnit(made, c, Unit(id, unit_type))

\* maybe_remove_unit(c).unwrap() for every coordinate of cs
RECURSIVE remove_units(_, _)
remove_units(e, cs) ==
    IF cs = {} THEN e
    ELSE LET c == CHOOSE y \in cs : TRUE
         IN  remove_units(remove_unit_unwrap(e, c), cs \ {c})

\* GameEngine::fix_capital: the set of possible outcomes
fix_capital(e, region_id) ==
    IF e.panic THEN {e}
    ELSE IF region_id \notin DOMAIN e.regions THEN {Panic(e)}
    ELSE
    LET coords == e.regions[region_id].coordinates
        capitals == Capitals(e, region_id)
        size == Cardinality(coords)
        empty == {c \in coords : ~has_unit(e, c)}
    IN  IF size = 1
        THEN IF capitals = {} THEN {e}
             ELSE {remove_unit_unwrap(e, CHOOSE c \in coords : TRUE)}
        ELSE IF capitals = {}
        THEN IF coords = {} THEN {Panic(e)}
             ELSE {create_and_place_unit(maybe_remove_unit(e, coord), "Village", coord) :
                      coord \in (IF empty # {} THEN empty ELSE coords)}
        ELSE IF Cardinality(capitals) > 1
        THEN {remove_units(e, capitals \ {keep}) : keep \in capitals}
        ELSE {e}


-----------------------------------------------------------------------------
(* location.rs: Location::add_tile_to_region *)

\* Location::add_coordinate_to_region / remove_coordinate_from_region
add_coordinate_to_region(e, region_id, c) ==
    [e EXCEPT !.regions[region_id].coordinates = @ \cup {c},
              !.coordinate_to_region = Put(@, c, region_id)]

\* a removal that updates the index but leaves the region's own set alone
remove_coordinate_from_region_IndexOnly(e, region_id, c) ==
    [e EXCEPT !.coordinate_to_region = Del(@, c)]

remove_coordinate_from_region(e, region_id, c) ==
    [e EXCEPT !.regions[region_id].coordinates = @ \ {c},
              !.coordinate_to_region = Del(@, c)]

\* a preparation that does not ask whether the coordinate is in the region
prepare_add_tile_error_NoMemberCheck(e, c, region_id) ==
    IF ~has_tile(e, c) THEN "CoordinateOutOfLocation"
    ELSE IF region_id \notin DOMAIN e.regions THEN "NoSuchRegion"
    ELSE IF neighbors(c) \cap e.regions[region_id].coordinates = {}
         THEN "CoordinateNotAdjacentToRegion"
    ELSE "Ok"

\* Location::validate_and_prepare_add_tile: "Ok" or the error kind
prepare_add_tile_error(e, c, region_id) ==
    IF ~has_tile(e, c) THEN "CoordinateOutOfLocation"
    ELSE IF region_id \notin DOMAIN e.regions THEN "NoSuchRegion"
    ELSE IF c \in e.regions[region_id].coordinates
         THEN "CoordinateNotAdjacentToRegion"
    ELSE IF neighbors(c) \cap e.regions[region_id].coordinates = {}
         THEN "CoordinateNotAdjacentToRegion"
    ELSE "Ok"

old_region_of(e, c) ==
    IF c \in DOMAIN e.coordinate_to_region THEN e.coordinate_to_region[c] ELSE NO_ID

\* a neighbour scan that stops at the first region of the owner it finds
merge_ids_of_FirstOnly(e, c, region_id) ==
    LET found == {r \in {region_id_at(e, n) : n \in neighbors(c)} \ {NO_ID} :
                    r # region_id /\ e.regions[region_id].owner = e.regions[r].owner}
    IN  IF found = {} THEN {} ELSE {CHOOSE r \in found : TRUE}

merge_ids_of(e, c, region_id) ==
    {r \in {region_id_at(e, n) : n \in neighbors(c)} \ {NO_ID} :
        r # region_id /\ e.regions[region_id].owner = e.regions[r].owner}

\* a split detection that never finds a part to remove
RegionParts_Whole(e, region_id) == {e.regions[region_id].coordinates}

\* the connected parts of a region (what region_part_to_remove can return,
\* depending on the coordinate the walk starts from)
RegionParts(e, region_id) ==
    LET own == {c \in DOMAIN e.coordinate_to_region :
                   e.coordinate_to_region[c] = region_id}
    IN  {bfs_set(e, start, own) : start \in e.regions[region_id].coordinates}

\* all orders of a set, as sequences
Orders(S) ==
    {f \in [1..Cardinality(S) -> S] : \A i, j \in 1..Cardinality(S) : i # j => f[i] # f[j]}

\* Location::maybe_split_region for a region that fell into the parts
\* order[1], order[2], ...: every part but one is peeled off under a fresh
\* id, in the order the walk finds them; here order[1] keeps the id and
\* order[k] is the (k-1)-th part peeled.  Returns the engine and the ids.
RECURSIVE peel(_, _, _, _)
peel(e, region_id, order, k) ==
    IF k > Len(order) THEN e
    ELSE LET new_id == e.id_producer + 1
             part == order[k]
             moved == [e EXCEPT
                         !.id_producer = new_id,
                         !.regions = Put([@ EXCEPT ![region_id].coordinates = @ \ part],
                                         new_id,
                                         Region(e.regions[region_id].owner, part)),
                         !.coordinate_to_region =
                             [c \in DOMAIN @ |-> IF c \in part THEN new_id ELSE @[c]]]
         IN  peel(moved, region_id, order, k + 1)

\* the transformations returned: Delete(id), Split{from, into}, Merge{from, into}
NoChanges == [delete |-> NO_ID, split |-> <<>>, merge |-> {}]

\* Location::add_tile_to_region after a successful validate_and_prepare:
\* the set of possible [e, res]
location_add_tile(e, c, region_id) ==
    LET old_region_id == old_region_of(e, c)
        merge_ids == merge_ids_of(e, c, region_id)
        \* step 1: leave the old region, which is deleted or split
        left ==
            IF old_region_id = NO_ID THEN {[e |-> e, res |-> NoChanges]}
            ELSE IF old_region_id \notin DOMAIN e.regions
            THEN {[e |-> Panic(e), res |-> NoChanges]}
            ELSE LET out == remove_coordinate_from_region(e, old_region_id, c) IN
                 IF out.regions[old_region_id].coordinates = {}
                 THEN {[e |-> [out EXCEPT !.regions = Del(@, old_region_id)],
                        res |-> [NoChanges EXCEPT !.delete = old_region_id]]}
                 ELSE LET parts == RegionParts(out, old_region_id) IN
                      IF Cardinality(parts) <= 1
                      THEN {[e |-> out, res |-> NoChanges]}
                      ELSE {LET split == peel(out, old_region_id, order, 2)
                            IN  [e |-> split,
                                 res |-> [NoChanges EXCEPT !.split =
                                            <<old_region_id>> \o
                                            [i \in 1..(Len(order) - 1) |-> out.id_producer + i]]]
                            : order \in Orders(parts)}
        \* step 2: join the new region and merge the neighbours of the owner
        join(x) ==
            IF x.e.panic THEN x
            ELSE IF \E r \in merge_ids : r \notin DOMAIN x.e.regions
            THEN [x EXCEPT !.e = Panic(x.e)]
            ELSE LET merged == UNION {x.e.regions[r].coordinates : r \in merge_ids}
                     all == {c} \cup merged
                     after == [x.e EXCEPT
                                 !.regions = [r \in DOMAIN @ \ merge_ids |->
                                                IF r = region_id
                                                THEN [@[r] EXCEPT !.coordinates = @ \cup all]
                                                ELSE @[r]],
                                 !.coordinate_to_region =
                                     [k \in DOMAIN @ \cup all |->
                                        IF k \in all THEN region_id ELSE @[k]]]
                 IN  [e |-> IF LocationValidate(after) THEN after ELSE Panic(after),
                      res |-> [x.res EXCEPT !.merge = merge_ids]]
    IN  {join(x) : x \in left}


-----------------------------------------------------------------------------
(* engine.rs: region bookkeeping after a capture *)

\* a merge that keeps only the balance of the region merged into
merge_regions_DropsBalance(e, from, into) ==
    Then(fix_capital(e, into),
         LAMBDA x :
            IF from \notin DOMAIN x.region_info \/ into \notin DOMAIN x.region_info
            THEN {Panic(x)}
            ELSE {[x EXCEPT !.region_info = Del(@, from)]})

\* GameEngine::merge_regions
merge_regions(e, from, into) ==
    Then(fix_capital(e, into),
         LAMBDA x :
            IF from \notin DOMAIN x.region_info \/ into \notin DOMAIN x.region_info
            THEN {Panic(x)}
            ELSE LET src == x.region_info[from]
                     dst == x.region_info[into]
                 IN  {[x EXCEPT !.region_info =
                        Put(Del(@, from), into,
                            [money_balance |-> dst.money_balance + src.money_balance,
                             maintenance_cost |-> dst.maintenance_cost + src.maintenance_cost,
                             income_from_fields |-> dst.income_from_fields + src.income_from_fields])]})

RECURSIVE merge_all(_, _, _)
merge_all(es, froms, into) ==
    IF froms = {} THEN es
    ELSE LET from == CHOOSE f \in froms : TRUE
         IN  merge_all(Then(es, LAMBDA x : merge_regions(x, from, into)),
                       froms \ {from}, into)

\* fix_capital for into[k], into[k+1], ... in turn
RECURSIVE fix_capitals(_, _, _)
fix_capitals(es, into, k) ==
    IF k > Len(into) THEN es
    ELSE fix_capitals(Then(es, LAMBDA x : fix_capital(x, into[k])), into, k + 1)

\* the balance the k-th money owner of n gets out of sum
split_share(sum, n, k) ==
    LET part == tdiv(sum, n)
        rest == sum - (n * part)
    IN  IF rest - (k - 1) > 0 THEN part + 1 ELSE part

\* GameEngine::split_region
split_region(e, from, into) ==
    IF e.panic THEN {e}
    ELSE IF from \notin DOMAIN e.region_info THEN {Panic(e)}
    ELSE
    LET src == e.region_info[from]
        removed == [e EXCEPT !.region_info = Del(@, from)]
        share(x) ==
            LET owners == SelectSeq(into, LAMBDA r :
                            Cardinality(x.regions[r].coordinates) >= MIN_CONTROLLED_REGION_SIZE)
                place(r) == CHOOSE k \in 1..Len(owners) : owners[k] = r
            IN  [x EXCEPT !.region_info =
                    [r \in DOMAIN @ \cup {into[i] : i \in 1..Len(into)} |->
                        IF \E k \in 1..Len(owners) : owners[k] = r
                        THEN RegionInfo(split_share(src.money_balance, Len(owners), place(r)))
                        ELSE IF \E i \in 1..Len(into) : into[i] = r
                        THEN RegionInfo(0)
                        ELSE @[r]]]
    IN  Then(fix_capitals({removed}, into, 1), LAMBDA x : {share(x)})

\* GameEngine::add_tile_to_region.  Returns the set of [e, err]: err is
\* "Ok" or the LocationModificationError kind of the `?`.
add_tile_to_region(e, c, region_id) ==
    LET fixed(x, old_region_id) ==
            IF x.res = NoChanges THEN fix_capital(x.e, old_region_id) ELSE {x.e}
        deleted(s0, res) ==
            IF res.delete # NO_ID
            THEN Then(s0, LAMBDA y : {[y EXCEPT !.region_info = Del(@, res.delete)]})
            ELSE s0
        split(s1, res, old_region_id) ==
            IF res.split # <<>>
            THEN Then(s1, LAMBDA y : split_region(y, old_region_id, res.split))
            ELSE s1
        handle(x, old_region_id) ==
            merge_all(split(deleted(fixed(x, old_region_id), x.res), x.res, old_region_id),
                      x.res.merge, region_id)
        adding(error) ==
            IF error # "Ok" THEN {[e |-> e, err |-> error]}
            ELSE {[e |-> y, err |-> "Ok"] :
                    y \in UNION {handle(x, region_id_at(e, c)) :
                                    x \in location_add_tile(e, c, region_id)}}
    IN  IF e.panic THEN {[e |-> e, err |-> "Ok"]}
        ELSE IF region_id_at(e, c) = NO_ID THEN {[e |-> Panic(e), err |-> "Ok"]}
        ELSE adding(prepare_add_tile_error(e, c, region_id))


-----------------------------------------------------------------------------
(* engine.rs: results of act() *)

\* Result<(), PlayerActionError>: kind is "Ok", the name of the error or
\* "Panic"; arg holds the numbers the error carries (a coordinate, an id,
\* the two move counts), utype the unit type it carries
Res(kind, arg, utype) == [kind |-> kind, arg |-> arg, utype |-> utype]
Ok == Res("Ok", <<>>, "None")
Panicked == Res("Panic", <<>>, "None")
\* no call has returned a result that the caller still holds
NoResult == Res("None", <<>>, "None")
NoCall ==
    [player |-> NO_ID, kind |-> "None", region_id |-> NO_ID, unit_type |-> "None",
     src |-> <<>>, dst |-> <<>>]
ErrCoord(kind, c) == Res(kind, c, "None")
ErrId(kind, id) == Res(kind, <<id>>, "None")
ErrType(kind, t) == Res(kind, <<>>, t)

\* can_step_on: only the surface matters
can_step_on(unit_type, tile) == tile.surface = "Land"

max_of(S, default) == IF S = {} THEN default ELSE CHOOSE x \in S : \A y \in S : y <= x

\* a stepping rule that lets a unit end its way on any tile of its region
unit_can_step_on_coord_AnyOwnTile(e, unit_type, c, original_region_id, is_last_step) ==
    IF ~has_tile(e, c) \/ ~can_step_on(unit_type, e.map[c]) THEN "no"
    ELSE IF region_id_at(e, c) = NO_ID THEN "panic"
    ELSE IF region_id_at(e, c) = original_region_id THEN "yes"
    ELSE "no"

\* a stepping rule for which an attack equal to the defence is enough
unit_can_step_on_coord_TiesWin(e, unit_type, c, original_region_id, is_last_step) ==
    IF ~has_tile(e, c) \/ ~can_step_on(unit_type, e.map[c]) THEN "no"
    ELSE IF region_id_at(e, c) = NO_ID THEN "panic"
    ELSE
    LET tile == e.map[c]
        dst_region == region_id_at(e, c)
    IN  IF dst_region = original_region_id
        THEN IF \/ ~is_last_step
                \/ tile.unit = NoUnit
                \/ merge_result(unit_type, tile.unit.unit_type) # "None"
             THEN "yes" ELSE "no"
        ELSE IF ~is_last_step THEN "no"
        ELSE IF original_region_id \notin DOMAIN e.regions THEN "panic"
        ELSE IF neighbors(c) \cap e.regions[original_region_id].coordinates = {} THEN "no"
        ELSE
        LET unit_defence ==
                IF tile.unit = NoUnit THEN EMPTY_TILE_DEFENCE
                ELSE description(tile.unit.unit_type).defence
            max_defence ==
                max_of({description(unit_at(e, n).unit_type).defence :
                          n \in {x \in neighbors(c) :
                                    /\ region_id_at(e, x) = dst_region
                                    /\ has_tile(e, x)
                                    /\ has_unit(e, x)}},
                       EMPTY_TILE_DEFENCE)
        IN  IF max_of({max_defence, unit_defence}, 0) <= description(unit_type).attack
            THEN "yes" ELSE "no"

\* GameEngine::unit_can_step_on_coord: "yes", "no", or "panic" where
\* region_at(..).unwrap() or regions()[&id] fails
unit_can_step_on_coord(e, unit_type, c, original_region_id, is_last_step) ==
    IF ~has_tile(e, c) \/ ~can_step_on(unit_type, e.map[c]) THEN "no"
    ELSE IF region_id_at(e, c) = NO_ID THEN "panic"
    ELSE
    LET tile == e.map[c]
        dst_region == region_id_at(e, c)
    IN  IF dst_region = original_region_id
        THEN IF \/ ~is_last_step
                \/ tile.unit = NoUnit
                \/ merge_result(unit_type, tile.unit.unit_type) # "None"
             THEN "yes" ELSE "no"
        ELSE IF ~is_last_step THEN "no"
        ELSE IF original_region_id \notin DOMAIN e.regions THEN "panic"
        ELSE IF neighbors(c) \cap e.regions[original_region_id].coordinates = {} THEN "no"
        ELSE
        LET unit_defence ==
                IF tile.unit = NoUnit THEN EMPTY_TILE_DEFENCE
                ELSE description(tile.unit.unit_type).defence
            max_defence ==
                max_of({description(unit_at(e, n).unit_type).defence :
                          n \in {x \in neighbors(c) :
                                    /\ region_id_at(e, x) = dst_region
                                    /\ has_tile(e, x)
                                    /\ has_unit(e, x)}},
                       EMPTY_TILE_DEFENCE)
        IN  IF max_of({max_defence, unit_defence}, 0) < description(unit_type).attack
            THEN "yes" ELSE "no"

\* GameEngine::prepare_placing_unit: res is Ok, an error or Panicked
prepare_placing_unit(e, player_id, originating_region_id, unit_type, dst) ==
    LET failed(res) == [res |-> res, need_relocation |-> FALSE,
                        old_unit_to_remove |-> NO_ID, upgrade_to |-> "None"]
        placing(dst_region, current_unit, possible) ==
            IF current_unit # NoUnit /\ e.regions[dst_region].owner = player_id
                  /\ possible = "None"
            THEN failed(ErrCoord("AlreadyOccupied", dst))
            ELSE IF current_unit # NoUnit /\ e.regions[dst_region].owner # player_id
                  /\ ~can_defeat(unit_type, current_unit.unit_type)
            THEN failed(ErrCoord("CannotAttack", dst))
            ELSE [res |-> Ok,
                  need_relocation |-> (dst_region # originating_region_id),
                  old_unit_to_remove |-> current_unit.id,
                  upgrade_to |->
                      IF current_unit # NoUnit
                            /\ e.regions[dst_region].owner = player_id
                            /\ possible # unit_type
                      THEN possible ELSE "None"]
        stepping(step) ==
            IF step = "panic" THEN failed(Panicked)
            ELSE IF step = "no" THEN failed(ErrCoord("InaccessibleLocation", dst))
            ELSE placing(region_id_at(e, dst), unit_at(e, dst),
                         merge_result(unit_type, unit_at(e, dst).unit_type))
    IN  stepping(unit_can_step_on_coord(e, unit_type, dst, originating_region_id, TRUE))

\* GameEngine::prepare_buying_unit
prepare_buying_unit(e, player_id, originating_region_id, unit_type, dst) ==
    LET buying(p, d) ==
            IF ~d.is_purchasable
            THEN [p EXCEPT !.res = ErrType("CannotBePlacedByPlayer", unit_type)]
            ELSE IF p.res # Ok THEN p
            ELSE IF p.upgrade_to # "None"
            THEN [p EXCEPT !.res = ErrCoord("InaccessibleLocation", dst)]
            ELSE IF originating_region_id \notin DOMAIN e.region_info
            THEN [p EXCEPT !.res = Panicked]
            ELSE IF ~(e.region_info[originating_region_id].money_balance
                        >= d.purchase_cost)
            THEN [p EXCEPT !.res = ErrId("NotEnoughMoney", originating_region_id)]
            ELSE p
    IN  buying(prepare_placing_unit(e, player_id, originating_region_id, unit_type, dst),
               description(unit_type))

\* GameEngine::modify_money
modify_money(e, region_id, amount) ==
    IF e.panic THEN e
    ELSE IF region_id \notin DOMAIN e.region_info THEN Panic(e)
    ELSE [e EXCEPT !.region_info[region_id].money_balance = @ + amount]

\* the handlers return the set of possible [e, res]; res is Ok or the error
\* the handler returns, and e.panic tells that it panicked
Outcome(e, res) == [e |-> e, res |-> res]

\* a `?` on the result of add_tile_to_region
LocationError(err) == Res("LocationError", <<>>, err)

\* GameEngine::place_new_unit
place_new_unit(e, player_id, originating_region_id, unit_type, dst) ==
    LET finish(p, x) ==
            modify_money(
                IF p.old_unit_to_remove # NO_ID /\ ~x.panic
                THEN [x EXCEPT !.unit_info = Del(@, p.old_unit_to_remove)]
                ELSE x,
                originating_region_id,
                0 - description(unit_type).purchase_cost)
        placing(p, placed) ==
            {IF m.err # "Ok" THEN Outcome(m.e, LocationError(m.err))
             ELSE Outcome(finish(p, m.e), Ok) :
                m \in IF p.need_relocation
                      THEN add_tile_to_region(placed, dst, originating_region_id)
                      ELSE {[e |-> placed, err |-> "Ok"]}}
        buying(p) ==
            IF p.res = Panicked THEN {Outcome(Panic(e), Ok)}
            ELSE IF p.res # Ok THEN {Outcome(e, p.res)}
            ELSE placing(p, create_and_place_unit(e, unit_type, dst))
    IN  buying(prepare_buying_unit(e, player_id, originating_region_id, unit_type, dst))


\* a preparation that reports the moves needed before the moves the unit has
prepare_moving_unit_NeedFirst(e, player_id, src, dst) ==
    LET none == [res |-> Ok, unit_id |-> NO_ID, moves_to_subtract |-> 0,
                 region_id |-> NO_ID, need_relocation |-> FALSE,
                 old_unit_id_to_remove |-> NO_ID, upgrade_to |-> "None"]
    IN
    IF ~has_tile(e, src) THEN [none EXCEPT !.res = ErrCoord("InaccessibleLocation", src)]
    ELSE IF region_id_at(e, src) = NO_ID
    THEN [none EXCEPT !.res = ErrCoord("InaccessibleLocation", src)]
    ELSE
    LET walking(unit, region, p, distance) ==
            IF unit.id \notin DOMAIN e.unit_info THEN [none EXCEPT !.res = Panicked]
            ELSE IF distance = -1
            THEN [none EXCEPT !.res = ErrCoord("InaccessibleLocation", dst)]
            ELSE IF e.unit_info[unit.id].moves_left < distance
            THEN [none EXCEPT !.res =
                      Res("NotEnoughMoves",
                          <<distance, e.unit_info[unit.id].moves_left>>, "None")]
            ELSE [res |-> Ok, unit_id |-> unit.id,
                  moves_to_subtract |->
                      IF p.need_relocation \/ p.old_unit_to_remove # NO_ID
                      THEN e.unit_info[unit.id].moves_left ELSE distance,
                  region_id |-> region, need_relocation |-> p.need_relocation,
                  old_unit_id_to_remove |-> p.old_unit_to_remove,
                  upgrade_to |-> p.upgrade_to]
        placing(unit, region, p) ==
            IF p.res # Ok THEN [none EXCEPT !.res = p.res]
            ELSE walking(unit, region, p,
                     bfs_distance(e, src, dst,
                         {c \in DOMAIN e.map :
                             unit_can_step_on_coord(e, unit.unit_type, c, region, c = dst)
                                 = "yes"}))
        moving(unit, region) ==
            IF e.regions[region].owner # player_id
            THEN [none EXCEPT !.res = ErrCoord("NotOwned", src)]
            ELSE IF unit = NoUnit THEN [none EXCEPT !.res = ErrCoord("NoUnit", dst)]
            ELSE placing(unit, region,
                     prepare_placing_unit(e, player_id, region, unit.unit_type, dst))
    IN  moving(unit_at(e, src), region_id_at(e, src))

\* a preparation that charges the distance walked for every move
prepare_moving_unit_PaysDistance(e, player_id, src, dst) ==
    LET none == [res |-> Ok, unit_id |-> NO_ID, moves_to_subtract |-> 0,
                 region_id |-> NO_ID, need_relocation |-> FALSE,
                 old_unit_id_to_remove |-> NO_ID, upgrade_to |-> "None"]
    IN
    IF ~has_tile(e, src) THEN [none EXCEPT !.res = ErrCoord("InaccessibleLocation", src)]
    ELSE IF region_id_at(e, src) = NO_ID
    THEN [none EXCEPT !.res = ErrCoord("InaccessibleLocation", src)]
    ELSE
    LET walking(unit, region, p, distance) ==
            IF unit.id \notin DOMAIN e.unit_info THEN [none EXCEPT !.res = Panicked]
            ELSE IF distance = -1
            THEN [none EXCEPT !.res = ErrCoord("InaccessibleLocation", dst)]
            ELSE IF e.unit_info[unit.id].moves_left < distance
            THEN [none EXCEPT !.res =
                      Res("NotEnoughMoves",
                          <<e.unit_info[unit.id].moves_left, distance>>, "None")]
            ELSE [res |-> Ok, unit_id |-> unit.id,
                  moves_to_subtract |->
                      distance,
                  region_id |-> region, need_relocation |-> p.need_relocation,
                  old_unit_id_to_remove |-> p.old_unit_to_remove,
                  upgrade_to |-> p.upgrade_to]
        placing(unit, region, p) ==
            IF p.res # Ok THEN [none EXCEPT !.res = p.res]
            ELSE walking(unit, region, p,
                     bfs_distance(e, src, dst,
                         {c \in DOMAIN e.map :
                             unit_can_step_on_coord(e, unit.unit_type, c, region, c = dst)
                                 = "yes"}))
        moving(unit, region) ==
            IF e.regions[region].owner # player_id
            THEN [none EXCEPT !.res = ErrCoord("NotOwned", src)]
            ELSE IF unit = NoUnit THEN [none EXCEPT !.res = ErrCoord("NoUnit", dst)]
            ELSE placing(unit, region,
                     prepare_placing_unit(e, player_id, region, unit.unit_type, dst))
    IN  moving(unit_at(e, src), region_id_at(e, src))

\* GameEngine::prepare_moving_unit
prepare_moving_unit(e, player_id, src, dst) ==
    LET none == [res |-> Ok, unit_id |-> NO_ID, moves_to_subtract |-> 0,
                 region_id |-> NO_ID, need_relocation |-> FALSE,
                 old_unit_id_to_remove |-> NO_ID, upgrade_to |-> "None"]
    IN
    IF ~has_tile(e, src) THEN [none EXCEPT !.res = ErrCoord("InaccessibleLocation", src)]
    ELSE IF region_id_at(e, src) = NO_ID
    THEN [none EXCEPT !.res = ErrCoord("InaccessibleLocation", src)]
    ELSE
    LET walking(unit, region, p, distance) ==
            IF unit.id \notin DOMAIN e.unit_info THEN [none EXCEPT !.res = Panicked]
            ELSE IF distance = -1
            THEN [none EXCEPT !.res = ErrCoord("InaccessibleLocation", dst)]
            ELSE IF e.unit_info[unit.id].moves_left < distance
            THEN [none EXCEPT !.res =
                      Res("NotEnoughMoves",
                          <<e.unit_info[unit.id].moves_left, distance>>, "None")]
            ELSE [res |-> Ok, unit_id |-> unit.id,
                  moves_to_subtract |->
                      IF p.need_relocation \/ p.old_unit_to_remove # NO_ID
                      THEN e.unit_info[unit.id].moves_left ELSE distance,
                  region_id |-> region, need_relocation |-> p.need_relocation,
                  old_unit_id_to_remove |-> p.old_unit_to_remove,
                  upgrade_to |-> p.upgrade_to]
        placing(unit, region, p) ==
            IF p.res # Ok THEN [none EXCEPT !.res = p.res]
            ELSE walking(unit, region, p,
                     bfs_distance(e, src, dst,
                         {c \in DOMAIN e.map :
                             unit_can_step_on_coord(e, unit.unit_type, c, region, c = dst)
                                 = "yes"}))
        moving(unit, region) ==
            IF e.regions[region].owner # player_id
            THEN [none EXCEPT !.res = ErrCoord("NotOwned", src)]
            ELSE IF unit = NoUnit THEN [none EXCEPT !.res = ErrCoord("NoUnit", dst)]
            ELSE placing(unit, region,
                     prepare_placing_unit(e, player_id, region, unit.unit_type, dst))
    IN  moving(unit_at(e, src), region_id_at(e, src))

\* a move that leaves a Grave on the tile the unit comes from
location_move_unit_LeavesGrave(e, from, to) ==
    create_and_place_unit(SetUnit(SetUnit(e, from, NoUnit), to, unit_at(e, from)),
                          "Grave", from)

\* Location::move_unit for coordinates that were checked: take, then place
location_move_unit(e, from, to) ==
    LET unit == unit_at(e, from) IN SetUnit(SetUnit(e, from, NoUnit), to, unit)

\* a move whose merged unit gets full moves whatever the unit merged into had
finish_move_AlwaysRefills(x, p, dst) ==
    IF x.panic THEN x
    ELSE IF p.unit_id \notin DOMAIN x.unit_info THEN Panic(x)
    ELSE IF p.moves_to_subtract > x.unit_info[p.unit_id].moves_left THEN Panic(x)
    ELSE
    LET sub == [x EXCEPT !.unit_info[p.unit_id].moves_left = @ - p.moves_to_subtract]
        has_old == p.old_unit_id_to_remove # NO_ID
                   /\ p.old_unit_id_to_remove \in DOMAIN sub.unit_info
        old_info == sub.unit_info[p.old_unit_id_to_remove]
        rem == IF has_old THEN [sub EXCEPT !.unit_info = Del(@, p.old_unit_id_to_remove)]
               ELSE sub
    IN  IF p.upgrade_to = "None" THEN rem
        ELSE
        LET cleared == remove_unit_unwrap(rem, dst)
            made == create_and_place_unit(cleared, p.upgrade_to, dst)
        IN  IF made.panic THEN made
            ELSE IF ~has_old THEN Panic(made)
            ELSE [made EXCEPT !.unit_info[made.id_producer] = RefilledInfo(@)]

\* GameEngine::move_unit after prepare_moving_unit: the part after the
\* region change, for one engine
finish_move(x, p, dst) ==
    IF x.panic THEN x
    ELSE IF p.unit_id \notin DOMAIN x.unit_info THEN Panic(x)
    ELSE IF p.moves_to_subtract > x.unit_info[p.unit_id].moves_left THEN Panic(x)
    ELSE
    LET sub == [x EXCEPT !.unit_info[p.unit_id].moves_left = @ - p.moves_to_subtract]
        has_old == p.old_unit_id_to_remove # NO_ID
                   /\ p.old_unit_id_to_remove \in DOMAIN sub.unit_info
        old_info == sub.unit_info[p.old_unit_id_to_remove]
        rem == IF has_old THEN [sub EXCEPT !.unit_info = Del(@, p.old_unit_id_to_remove)]
               ELSE sub
    IN  IF p.upgrade_to = "None" THEN rem
        ELSE
        LET cleared == remove_unit_unwrap(rem, dst)
            made == create_and_place_unit(cleared, p.upgrade_to, dst)
        IN  IF made.panic THEN made
            ELSE IF ~has_old THEN Panic(made)
            ELSE IF old_info.moves_left = description(old_info.unit_type).max_moves
            THEN [made EXCEPT !.unit_info[made.id_producer] = RefilledInfo(@)]
            ELSE made

\* GameEngine::move_unit
move_unit(e, player_id, src, dst) ==
    LET stepping(p, stepped) ==
            {IF m.err # "Ok" THEN Outcome(m.e, LocationError(m.err))
             ELSE Outcome(finish_move(m.e, p, dst), Ok) :
                m \in IF p.need_relocation
                      THEN add_tile_to_region(stepped, dst, p.region_id)
                      ELSE {[e |-> stepped, err |-> "Ok"]}}
        moving(p) ==
            IF p.res = Panicked THEN {Outcome(Panic(e), Ok)}
            ELSE IF p.res # Ok THEN {Outcome(e, p.res)}
            ELSE stepping(p, location_move_unit(e, src, dst))
    IN  moving(prepare_moving_unit(e, player_id, src, dst))

\* an upgrade that replaces the unit first and looks at the money afterwards
upgrade_unit_PaysLate(e, player_id, dst) ==
    LET region == region_id_at(e, dst) IN
    IF region = NO_ID THEN Outcome(e, ErrCoord("InaccessibleLocation", dst))
    ELSE IF e.regions[region].owner # player_id THEN Outcome(e, ErrCoord("NotOwned", dst))
    ELSE IF ~has_tile(e, dst) THEN Outcome(Panic(e), Ok)
    ELSE IF ~has_unit(e, dst) THEN Outcome(e, ErrCoord("NoUnit", dst))
    ELSE
    LET old == description(unit_at(e, dst).unit_type) IN
    IF old.upgrades_to = "None" THEN Outcome(e, ErrType("NoUpgrade", old.name))
    ELSE
    LET new == description(old.upgrades_to)
        sum == new.purchase_cost - old.purchase_cost
        upgraded == create_and_place_unit(remove_unit_unwrap(e, dst), new.name, dst)
    IN
    IF region \notin DOMAIN e.region_info THEN Outcome(Panic(e), Ok)
    ELSE IF ~(e.region_info[region].money_balance >= sum)
    THEN Outcome(upgraded, ErrId("NotEnoughMoney", region))
    ELSE Outcome(modify_money(upgraded, region, 0 - sum), Ok)

\* an upgrade that charges the whole price of the new type
upgrade_unit_FullPrice(e, player_id, dst) ==
    LET region == region_id_at(e, dst) IN
    IF region = NO_ID THEN Outcome(e, ErrCoord("InaccessibleLocation", dst))
    ELSE IF e.regions[region].owner # player_id THEN Outcome(e, ErrCoord("NotOwned", dst))
    ELSE IF ~has_tile(e, dst) THEN Outcome(Panic(e), Ok)
    ELSE IF ~has_unit(e, dst) THEN Outcome(e, ErrCoord("NoUnit", dst))
    ELSE
    LET old == description(unit_at(e, dst).unit_type) IN
    IF old.upgrades_to = "None" THEN Outcome(e, ErrType("NoUpgrade", old.name))
    ELSE
    LET new == description(old.upgrades_to)
        sum == new.purchase_cost
    IN
    IF region \notin DOMAIN e.region_info THEN Outcome(Panic(e), Ok)
    ELSE IF ~(e.region_info[region].money_balance >= sum)
    THEN Outcome(e, ErrId("NotEnoughMoney", region))
    ELSE Outcome(modify_money(
                    create_and_place_unit(remove_unit_unwrap(e, dst), new.name, dst),
                    region, 0 - sum),
                 Ok)

\* GameEngine::prepare_upgrading_unit and GameEngine::upgrade_unit
upgrade_unit(e, player_id, dst) ==
    LET region == region_id_at(e, dst) IN
    IF region = NO_ID THEN Outcome(e, ErrCoord("InaccessibleLocation", dst))
    ELSE IF e.regions[region].owner # player_id THEN Outcome(e, ErrCoord("NotOwned", dst))
    ELSE IF ~has_tile(e, dst) THEN Outcome(Panic(e), Ok)
    ELSE IF ~has_unit(e, dst) THEN Outcome(e, ErrCoord("NoUnit", dst))
    ELSE
    LET old == description(unit_at(e, dst).unit_type) IN
    IF old.upgrades_to = "None" THEN Outcome(e, ErrType("NoUpgrade", old.name))
    ELSE
    LET new == description(old.upgrades_to)
        sum == new.purchase_cost - old.purchase_cost
    IN
    IF region \notin DOMAIN e.region_info THEN Outcome(Panic(e), Ok)
    ELSE IF ~(e.region_info[region].money_balance >= sum)
    THEN Outcome(e, ErrId("NotEnoughMoney", region))
    ELSE Outcome(modify_money(
                    create_and_place_unit(remove_unit_unwrap(e, dst), new.name, dst),
                    region, 0 - sum),
                 Ok)


-----------------------------------------------------------------------------
(* engine.rs: end of a player's turn and the rollover *)

CoordLess(a, b) == a[1] < b[1] \/ (a[1] = b[1] /\ a[2] < b[2])

\* the coordinates of S in the order in which the model issues fresh ids
RECURSIVE InOrder(_)
InOrder(S) ==
    IF S = {} THEN <<>>
    ELSE LET m == CHOOSE x \in S : \A y \in S \ {x} : CoordLess(x, y)
         IN  <<m>> \o InOrder(S \ {m})

\* maybe_remove_unit(c).unwrap() (when `replace`) and
\* create_and_place_unit(unit_type, c).unwrap() for every c of the sequence
RECURSIVE put_units(_, _, _, _, _)
put_units(e, cs, k, unit_type, replace) ==
    IF k > Len(cs) THEN e
    ELSE put_units(
            create_and_place_unit(
                IF replace THEN remove_unit_unwrap(e, cs[k]) ELSE e,
                unit_type, cs[k]),
            cs, k + 1, unit_type, replace)

\* an income step that pays every region, the empty single tiles too
apply_income_NoSkip(e) ==
    IF e.panic THEN e
    ELSE IF \E r \in DOMAIN e.regions :
              \/ e.regions[r].coordinates = {}
              \/ r \notin DOMAIN e.region_info
    THEN Panic(e)
    ELSE
        [e EXCEPT !.region_info =
            [r \in DOMAIN @ |->
                IF r \in DOMAIN e.regions
                THEN [@[r] EXCEPT !.money_balance =
                        @ + (e.region_info[r].income_from_fields
                             - e.region_info[r].maintenance_cost)]
                ELSE @[r]]]

\* GameEngine::apply_income
apply_income(e) ==
    IF e.panic THEN e
    ELSE IF \E r \in DOMAIN e.regions :
              \/ e.regions[r].coordinates = {}
              \/ r \notin DOMAIN e.region_info
    THEN Panic(e)
    ELSE
    LET skipped(r) ==
            /\ Cardinality(e.regions[r].coordinates) < MIN_CONTROLLED_REGION_SIZE
            /\ \A c \in e.regions[r].coordinates : ~has_unit(e, c)
    IN  [e EXCEPT !.region_info =
            [r \in DOMAIN @ |->
                IF r \in DOMAIN e.regions /\ ~skipped(r)
                THEN [@[r] EXCEPT !.money_balance =
                        @ + (e.region_info[r].income_from_fields
                             - e.region_info[r].maintenance_cost)]
                ELSE @[r]]]

\* GameEngine::refill_moves
refill_moves(e) ==
    IF e.panic THEN e
    ELSE [e EXCEPT !.unit_info = [id \in DOMAIN @ |-> RefilledInfo(@[id])]]

IsTree(u) == u.unit_type = "PalmTree" \/ u.unit_type = "PineTree"

\* a choice of tree that lets palms grow in every turn
tree_for_NoFifthTurnRest(e, c) ==
    LET water_num == Cardinality({n \in neighbors(c) : ~has_tile(e, n) \/ is_water(e, n)})
        trees_num == Cardinality({n \in neighbors(c) : has_tile(e, n) /\ IsTree(unit_at(e, n))})
    IN  IF water_num > 0 /\ trees_num >= 1 THEN "PalmTree"
        ELSE IF trees_num >= 2 /\ e.current_turn % 2 = 0 THEN "PineTree"
        ELSE "None"

\* GameEngine::tree_for: "None" for Option::None
tree_for(e, c) ==
    IF e.current_turn % 2 # 0 /\ e.current_turn % 5 = 0 THEN "None"
    ELSE
    LET water_num == Cardinality({n \in neighbors(c) : ~has_tile(e, n) \/ is_water(e, n)})
        trees_num == Cardinality({n \in neighbors(c) : has_tile(e, n) /\ IsTree(unit_at(e, n))})
    IN  IF water_num > 0 /\ trees_num >= 1 /\ e.current_turn % 5 # 0 THEN "PalmTree"
        ELSE IF trees_num >= 2 /\ e.current_turn % 2 = 0 THEN "PineTree"
        ELSE "None"

\* GameEngine::spread_forests and GameEngine::add_tree
spread_forests(e) ==
    IF e.panic THEN e
    ELSE
    LET free == {c \in DOMAIN e.map : ~is_water(e, c) /\ ~has_unit(e, c)}
        coordinates_for_palms == {c \in free : tree_for(e, c) = "PalmTree"}
        coordinates_for_pines == {c \in free : tree_for(e, c) = "PineTree"}
    IN  put_units(put_units(e, InOrder(coordinates_for_palms), 1, "PalmTree", FALSE),
                  InOrder(coordinates_for_pines), 1, "PineTree", FALSE)

\* a conversion of graves that leaves the graves as they are
replace_graves_with_pine_trees_Skipped(e) == e

\* GameEngine::replace_graves_with_pine_trees
replace_graves_with_pine_trees(e) ==
    IF e.panic THEN e
    ELSE LET existing_graves == {c \in DOMAIN e.map : unit_at(e, c).unit_type = "Grave"}
         IN  put_units(e, InOrder(existing_graves), 1, "PineTree", TRUE)

\* a starvation step that does not look at the balance
kill_starving_units_AllRegions(e) ==
    IF e.panic THEN e
    ELSE
    LET regions_to_check == DOMAIN e.region_info
        kill_coordinates ==
            {c \in UNION {e.regions[r].coordinates : r \in regions_to_check \cap DOMAIN e.regions} :
                /\ has_unit(e, c)
                /\ ~is_unownable(description(unit_at(e, c).unit_type))
                /\ description(unit_at(e, c).unit_type).turn_cost > 0}
    IN  put_units(e, InOrder(kill_coordinates), 1, "Grave", TRUE)

\* GameEngine::kill_starving_units
kill_starving_units(e) ==
    IF e.panic THEN e
    ELSE
    LET regions_to_check == {r \in DOMAIN e.region_info : e.region_info[r].money_balance < 0}
        kill_coordinates ==
            {c \in UNION {e.regions[r].coordinates : r \in regions_to_check \cap DOMAIN e.regions} :
                /\ has_unit(e, c)
                /\ ~is_unownable(description(unit_at(e, c).unit_type))
                /\ description(unit_at(e, c).unit_type).turn_cost > 0}
    IN  put_units(e, InOrder(kill_coordinates), 1, "Grave", TRUE)

\* a winner check that takes the first player of the list for the last
\* one standing
check_for_winner_FirstListed(e) ==
    IF e.panic THEN e
    ELSE LET active_players == SelectSeq(e.players, LAMBDA p : e.player_activity[p])
         IN  IF Len(active_players) = 1 THEN [e EXCEPT !.winner = e.players[1]]
             ELSE e

\* GameEngine::check_for_winner
check_for_winner(e) ==
    IF e.panic THEN e
    ELSE LET active_players == SelectSeq(e.players, LAMBDA p : e.player_activity[p])
         IN  IF Len(active_players) = 1 THEN [e EXCEPT !.winner = active_players[1]]
             ELSE e

\* GameEngine::rewind_to_active_player: the index the loop stops at
RECURSIVE rewound(_, _)
rewound(e, num) ==
    IF num < Len(e.players) /\ ~e.player_activity[e.players[num + 1]]
    THEN rewound(e, num + 1)
    ELSE num

\* a rewind that stops at the player it starts at, active or not
rewind_to_active_player_NoSkip(e) == e

rewind_to_active_player(e) ==
    IF e.panic THEN e ELSE [e EXCEPT !.active_player_num = rewound(e, @)]

\* a rollover that does not refill the moves of the units
end_turn_NoRefill(e) ==
    LET batch == check_for_winner(check_for_active_players(kill_starving_units(
                    replace_graves_with_pine_trees(spread_forests(apply_income(e))))))
    IN  IF batch.panic THEN batch
        ELSE rewind_to_active_player(
                [batch EXCEPT !.current_turn = @ + 1, !.active_player_num = 0])

\* a rollover that stops where the winner check has set a winner
end_turn_HaltsOnWinner(e) ==
    LET batch == check_for_winner(check_for_active_players(kill_starving_units(
                    replace_graves_with_pine_trees(spread_forests(refill_moves(
                        apply_income(e)))))))
    IN  IF batch.panic \/ batch.winner # NO_ID THEN batch
        ELSE rewind_to_active_player(
                [batch EXCEPT !.current_turn = @ + 1, !.active_player_num = 0])

\* a rollover that leaves the index of the active player where it is, past
\* the end of the list
end_turn_NoIndexReset(e) ==
    LET batch == check_for_winner(check_for_active_players(kill_starving_units(
                    replace_graves_with_pine_trees(spread_forests(refill_moves(
                        apply_income(e)))))))
    IN  IF batch.panic THEN batch
        ELSE [batch EXCEPT !.current_turn = @ + 1]

\* a rollover that hands the turn to the first player of the list, active or
\* not
end_turn_NoRewind(e) ==
    LET batch == check_for_winner(check_for_active_players(kill_starving_units(
                    replace_graves_with_pine_trees(spread_forests(refill_moves(
                        apply_income(e)))))))
    IN  IF batch.panic THEN batch
        ELSE [batch EXCEPT !.current_turn = @ + 1, !.active_player_num = 0]

\* GameEngine::end_turn
end_turn(e) ==
    LET batch == check_for_winner(check_for_active_players(kill_starving_units(
                    replace_graves_with_pine_trees(spread_forests(refill_moves(
                        apply_income(e)))))))
    IN  IF batch.panic THEN batch
        ELSE rewind_to_active_player(
                [batch EXCEPT !.current_turn = @ + 1, !.active_player_num = 0])

\* GameEngine::end_players_turn
end_players_turn(e) ==
    LET next == rewind_to_active_player([e EXCEPT !.active_player_num = @ + 1])
    IN  IF next.active_player_num >= Len(e.players) THEN end_turn(next) ELSE next


-----------------------------------------------------------------------------
(* engine.rs: GameEngine::act *)

\* PlayerAction values
PlaceNewUnitAction(region_id, unit_type, dst) ==
    [kind |-> "PlaceNewUnit", region_id |-> region_id, unit_type |-> unit_type,
     src |-> <<>>, dst |-> dst]
UpgradeUnitAction(dst) ==
    [kind |-> "UpgradeUnit", region_id |-> NO_ID, unit_type |-> "None",
     src |-> <<>>, dst |-> dst]
MoveUnitAction(src, dst) ==
    [kind |-> "MoveUnit", region_id |-> NO_ID, unit_type |-> "None",
     src |-> src, dst |-> dst]
EndTurnAction ==
    [kind |-> "EndTurn", region_id |-> NO_ID, unit_type |-> "None",
     src |-> <<>>, dst |-> <<>>]

\* a validation that looks at the winner before it looks at the caller
validate_action_WinnerFirst(e, player_id) ==
    IF e.winner # NO_ID THEN Res("GameAlreadyFinished", <<>>, "None")
    ELSE IF e.active_player_num >= Len(e.players) THEN Panicked
    ELSE IF player_id # e.players[e.active_player_num + 1]
    THEN ErrId("OtherPlayersTurn", e.players[e.active_player_num + 1])
    ELSE Ok

\* GameEngine::validate_action: Ok, the error, or Panicked when
\* players[active_player_num] is out of bounds
validate_action(e, player_id) ==
    IF e.active_player_num >= Len(e.players) THEN Panicked
    ELSE IF player_id # e.players[e.active_player_num + 1]
    THEN ErrId("OtherPlayersTurn", e.players[e.active_player_num + 1])
    ELSE IF e.winner # NO_ID THEN Res("GameAlreadyFinished", <<>>, "None")
    ELSE Ok

\* the match of act(): the handler of the action
dispatch(e, player_id, action) ==
    CASE action.kind = "MoveUnit" -> move_unit(e, player_id, action.src, action.dst)
      [] action.kind = "PlaceNewUnit" ->
            place_new_unit(e, player_id, action.region_id, action.unit_type, action.dst)
      [] action.kind = "UpgradeUnit" -> {upgrade_unit(e, player_id, action.dst)}
      [] action.kind = "EndTurn" -> {Outcome(end_players_turn(e), Ok)}

\* a tail of act() that also looks for a winner, after every action
settle_WithWinnerCheck(e) ==
    LET checked == check_for_winner(check_for_active_players(recount_region_info(e)))
    IN  IF checked.panic THEN checked
        ELSE IF validate(checked) THEN checked
        ELSE Panic(checked)

\* the tail of act(): recount, activity check and self-validation
settle(e) ==
    LET checked == check_for_active_players(recount_region_info(e))
    IN  IF checked.panic THEN checked
        ELSE IF validate(checked) THEN checked
        ELSE Panic(checked)

\* an act() that checks whose turn it is but not whether the game is over
act_NoFinishCheck(e, player_id, action) ==
    LET v == validate_action([e EXCEPT !.winner = NO_ID], player_id) IN
    IF v = Panicked THEN {Outcome(Panic(e), Ok)}
    ELSE IF v # Ok THEN {Outcome(e, v)}
    ELSE {IF o.res # Ok THEN o ELSE Outcome(settle(o.e), Ok) :
             o \in dispatch(e, player_id, action)}

\* GameEngine::act: the set of possible [e, res]
act(e, player_id, action) ==
    LET v == validate_action(e, player_id) IN
    IF v = Panicked THEN {Outcome(Panic(e), Ok)}
    ELSE IF v # Ok THEN {Outcome(e, v)}
    ELSE {IF o.res # Ok THEN o ELSE Outcome(settle(o.e), Ok) :
             o \in dispatch(e, player_id, action)}

-----------------------------------------------------------------------------
(* The state machine *)

\* the engine the variables hold
Engine ==
    [players |-> players, player_activity |-> player_activity, winner |-> winner,
     current_turn |-> current_turn, active_player_num |-> active_player_num,
     map |-> map, regions |-> regions,
     coordinate_to_region |-> coordinate_to_region,
     region_info |-> region_info, unit_info |-> unit_info,
     id_producer |-> id_producer, panic |-> FALSE]

EngineVars ==
    <<players, player_activity, winner, current_turn, active_player_num,
      map, regions, coordinate_to_region, region_info, unit_info, id_producer>>

\* the variables take the engine e
Becomes(e) ==
    /\ players' = e.players
    /\ player_activity' = e.player_activity
    /\ winner' = e.winner
    /\ current_turn' = e.current_turn
    /\ active_player_num' = e.active_player_num
    /\ map' = e.map
    /\ regions' = e.regions
    /\ coordinate_to_region' = e.coordinate_to_region
    /\ region_info' = e.region_info
    /\ unit_info' = e.unit_info
    /\ id_producer' = e.id_producer

\* one call act(player_id, action) on a running engine.  act() takes
\* &mut self, so a call begins only when the one before it has returned and
\* the caller has its result; a panic ends the program.  Calls are followed
\* until turn MaxTurn begins, and without limit once the game has a winner.
Act(player_id, action) ==
    /\ result = NoResult
    /\ (current_turn < MaxTurn \/ winner # NO_ID)
    /\ \E o \in act(Engine, player_id, action) :
          /\ (o.e.panic \/ o.e.id_producer <= MaxId)
          /\ Becomes(o.e)
          /\ result' = IF o.e.panic THEN Panicked ELSE o.res
          /\ call' = [player |-> player_id, kind |-> action.kind,
                       region_id |-> action.region_id,
                       unit_type |-> action.unit_type,
                       src |-> action.src, dst |-> action.dst]


\* GameEngine::new for a location that passes the validation
new(loc, the_players, last_issued_id) ==
    LET units == {loc.map[c].unit : c \in {x \in DOMAIN loc.map : loc.map[x].unit # NoUnit}}
        fresh ==
            [players |-> the_players,
             player_activity |-> [p \in {the_players[i] : i \in 1..Len(the_players)} |-> TRUE],
             winner |-> NO_ID, current_turn |-> 1, active_player_num |-> 0,
             map |-> loc.map, regions |-> loc.regions,
             coordinate_to_region |-> loc.coordinate_to_region,
             region_info |->
                [r \in DOMAIN loc.regions |->
                    IF Cardinality(loc.regions[r].coordinates) >= MIN_CONTROLLED_REGION_SIZE
                    THEN RegionInfo(CONTROLLED_REGION_STARTING_MONEY)
                    ELSE RegionInfo(0)],
             unit_info |->
                [id \in {u.id : u \in units} |->
                    NewUnitInfo((CHOOSE u \in units : u.id = id).unit_type)],
             id_producer |-> last_issued_id, panic |-> FALSE]
    IN  refill_moves(recount_region_info(fresh))

\* Location::new: the index from coordinates to regions
location_new(m, r) ==
    Loc(m, r,
        [c \in UNION {r[id].coordinates : id \in DOMAIN r} |->
            CHOOSE id \in DOMAIN r : c \in r[id].coordinates])

\* test_util.rs create_simple_map: seven tiles, a centre and its ring
SimpleCoords ==
    {Coord(0, 1), Coord(1, 0), Coord(-1, 1), Coord(0, 0), Coord(1, -1),
     Coord(-1, 0), Coord(0, -1)}

\* a map with the given water tiles and units
MapOf(coords, water, units) ==
    [c \in coords |->
        [surface |-> IF c \in water THEN "Water" ELSE "Land",
         unit |-> IF c \in DOMAIN units THEN units[c] ELSE NoUnit]]

\* Players 1 and 2.  Player 1 holds the centre and three arms, player 2
\* three single tiles between the arms, one with a Soldier and one with a
\* grave; a water tile lies off the ring.
HubEngine ==
    new(location_new(
            MapOf(SimpleCoords \cup {Coord(2, -1)}, {Coord(2, -1)},
                  Coord(0, 1) :> Unit(7, "Village") @@ Coord(1, 0) :> Unit(8, "Soldier")
                  @@ Coord(0, -1) :> Unit(9, "Grave")),
            3 :> Region(1, {Coord(0, 0), Coord(0, 1), Coord(1, -1), Coord(-1, 0)})
            @@ 4 :> Region(2, {Coord(1, 0)})
            @@ 5 :> Region(2, {Coord(0, -1)})
            @@ 6 :> Region(2, {Coord(-1, 1)})),
        <<1, 2>>, 9)

InitialEngines == {HubEngine}

Init ==
    /\ \E e \in InitialEngines : 
          /\ players = e.players
          /\ player_activity = e.player_activity
          /\ winner = e.winner
          /\ current_turn = e.current_turn
          /\ active_player_num = e.active_player_num
          /\ map = e.map
          /\ regions = e.regions
          /\ coordinate_to_region = e.coordinate_to_region
          /\ region_info = e.region_info
          /\ unit_info = e.unit_info
          /\ id_producer = e.id_producer
    /\ call = NoCall
    /\ result = NoResult

\* the inputs of act()
NoSuchRegion == NO_ID
OffMap == Coord(5, 5)
PlayerInputs == DOMAIN player_activity
RegionInputs == DOMAIN regions \cup {NoSuchRegion}
CoordInputs == DOMAIN map \cup {OffMap}
UnitTypeInputs == {"Militia", "Tower", "Village"}

PlaceNewUnit ==
    \E p \in PlayerInputs, r \in RegionInputs, t \in UnitTypeInputs, dst \in CoordInputs :
        Act(p, PlaceNewUnitAction(r, t, dst))

UpgradeUnit ==
    \E p \in PlayerInputs, dst \in CoordInputs : Act(p, UpgradeUnitAction(dst))

MoveUnit ==
    \E p \in PlayerInputs, src \in CoordInputs, dst \in CoordInputs :
        Act(p, MoveUnitAction(src, dst))

EndTurn ==
    \E p \in PlayerInputs : Act(p, EndTurnAction)

\* the caller takes the Result that act() returned; the engine is free for
\* the next call
Return ==
    /\ result.kind \notin {"None", "Panic"}
    /\ result' = NoResult
    /\ call' = NoCall
    /\ UNCHANGED EngineVars

Next == PlaceNewUnit \/ UpgradeUnit \/ MoveUnit \/ EndTurn \/ Return

Spec == Init /\ [][Next]_vars

\* A row of six tiles for the players in the given order.  Player 1 holds a
\* Village, a Militia and a Soldier, player 2 one tile with a Militia next
\* to the Soldier, player 3 a Village and a Militia.
RowEngine(the_players) ==
    new(location_new(
            MapOf({Coord(x, 0) : x \in 0..5}, {},
                  Coord(0, 0) :> Unit(7, "Village") @@ Coord(1, 0) :> Unit(8, "Militia")
                  @@ Coord(2, 0) :> Unit(9, "Soldier") @@ Coord(3, 0) :> Unit(10, "Militia")
                  @@ Coord(4, 0) :> Unit(11, "Village") @@ Coord(5, 0) :> Unit(12, "Militia")),
            4 :> Region(1, {Coord(0, 0), Coord(1, 0), Coord(2, 0)})
            @@ 5 :> Region(2, {Coord(3, 0)})
            @@ 6 :> Region(3, {Coord(4, 0), Coord(5, 0)})),
        the_players, 12)

\* A row of seven tiles.  Player 1 holds a region of two tiles and a region
\* of three, each with its Village, the larger one with a Grave and a Militia;
\* player 2 holds the empty tile between them and a tile with a Militia at the
\* end of the row.
GapEngine ==
    new(location_new(
            MapOf({Coord(x, 0) : x \in 0..6}, {},
                  Coord(0, 0) :> Unit(7, "Village") @@ Coord(3, 0) :> Unit(8, "Grave")
                  @@ Coord(4, 0) :> Unit(9, "Militia") @@ Coord(5, 0) :> Unit(10, "Village")
                  @@ Coord(6, 0) :> Unit(11, "Militia")),
            3 :> Region(1, {Coord(0, 0), Coord(1, 0)})
            @@ 4 :> Region(2, {Coord(2, 0)})
            @@ 5 :> Region(1, {Coord(3, 0), Coord(4, 0), Coord(5, 0)})
            @@ 6 :> Region(2, {Coord(6, 0)})),
        <<1, 2>>, 11)

FieldEngines == {RowEngine(<<1, 2, 3>>), GapEngine}

InitField ==
    /\ \E e \in FieldEngines :
          /\ players = e.players
          /\ player_activity = e.player_activity
          /\ winner = e.winner
          /\ current_turn = e.current_turn
          /\ active_player_num = e.active_player_num
          /\ map = e.map
          /\ regions = e.regions
          /\ coordinate_to_region = e.coordinate_to_region
          /\ region_info = e.region_info
          /\ unit_info = e.unit_info
          /\ id_producer = e.id_producer
    /\ call = NoCall
    /\ result = NoResult

SpecField == InitField /\ [][Next]_vars

\* A row of five tiles of player 1, with a Village at one end and a Knight at
\* the other, and below its middle tile a region of two tiles of player 2
\* with a Soldier, next to the row, and a Village.
CrossEngine ==
    new(location_new(
            MapOf({Coord(x, 0) : x \in 0..4} \cup {Coord(2, 1), Coord(2, 2)}, {},
                  Coord(0, 0) :> Unit(5, "Village") @@ Coord(4, 0) :> Unit(6, "Knight")
                  @@ Coord(2, 1) :> Unit(7, "Soldier") @@ Coord(2, 2) :> Unit(8, "Village")),
            3 :> Region(1, {Coord(x, 0) : x \in 0..4})
            @@ 4 :> Region(2, {Coord(2, 1), Coord(2, 2)})),
        <<1, 2>>, 8)

InitCross ==
    /\ players = CrossEngine.players
    /\ player_activity = CrossEngine.player_activity
    /\ winner = CrossEngine.winner
    /\ current_turn = CrossEngine.current_turn
    /\ active_player_num = CrossEngine.active_player_num
    /\ map = CrossEngine.map
    /\ regions = CrossEngine.regions
    /\ coordinate_to_region = CrossEngine.coordinate_to_region
    /\ region_info = CrossEngine.region_info
    /\ unit_info = CrossEngine.unit_info
    /\ id_producer = CrossEngine.id_producer
    /\ call = NoCall
    /\ result = NoResult

SpecCross == InitCross /\ [][Next]_vars

\* A row of five tiles and one tile below its second.  Player 2 holds the
\* first tile, with a Soldier, and the third; between them lies a tile of a
\* region of player 1 whose other tile, below, holds its Village.  The rest
\* of the row is a second region of player 1.
PocketEngine ==
    new(location_new(
            MapOf({Coord(x, 0) : x \in 0..4} \cup {Coord(1, 1)}, {},
                  Coord(0, 0) :> Unit(7, "Soldier") @@ Coord(1, 1) :> Unit(8, "Village")
                  @@ Coord(3, 0) :> Unit(9, "Village")),
            3 :> Region(2, {Coord(0, 0)})
            @@ 4 :> Region(1, {Coord(1, 0), Coord(1, 1)})
            @@ 5 :> Region(2, {Coord(2, 0)})
            @@ 6 :> Region(1, {Coord(3, 0), Coord(4, 0)})),
        <<1, 2>>, 9)

InitPocket ==
    /\ players = PocketEngine.players
    /\ player_activity = PocketEngine.player_activity
    /\ winner = PocketEngine.winner
    /\ current_turn = PocketEngine.current_turn
    /\ active_player_num = PocketEngine.active_player_num
    /\ map = PocketEngine.map
    /\ regions = PocketEngine.regions
    /\ coordinate_to_region = PocketEngine.coordinate_to_region
    /\ region_info = PocketEngine.region_info
    /\ unit_info = PocketEngine.unit_info
    /\ id_producer = PocketEngine.id_producer
    /\ call = NoCall
    /\ result = NoResult

SpecPocket == InitPocket /\ [][Next]_vars

\* the turn that rollovers are followed to when only turns are ended
MaxForestTurn == 11

\* A row of nineteen tiles, (0,0)..(18,0), with a PalmTree at each end.
\* Player 1 holds the ten tiles on the left and a tile with its Village
\* below the row, player 2 the nine on the right and a tile with its Village
\* above the row.
RowForest ==
    new(location_new(
            MapOf({Coord(x, 0) : x \in 0..18} \cup {Coord(0, 1), Coord(18, -1)}, {},
                  Coord(0, 0) :> Unit(5, "PalmTree") @@ Coord(0, 1) :> Unit(6, "Village")
                  @@ Coord(18, 0) :> Unit(7, "PalmTree") @@ Coord(18, -1) :> Unit(8, "Village")),
            3 :> Region(1, {Coord(x, 0) : x \in 0..9} \cup {Coord(0, 1)})
            @@ 4 :> Region(2, {Coord(x, 0) : x \in 10..18} \cup {Coord(18, -1)})),
        <<1, 2>>, 8)

\* the tiles of the simple map that hold no Village in a grove
GroveFree == {Coord(0, 0), Coord(0, 1), Coord(-1, 1), Coord(1, 0), Coord(1, -1)}

\* The simple map with a water tile off its ring.  Player 1 holds the centre
\* and three tiles of the ring, player 2 the other three; each has a Village,
\* and the tiles of `trees` hold a PineTree each.
GroveEngine(trees) ==
    LET order == InOrder(trees)
    IN  new(location_new(
                MapOf(SimpleCoords \cup {Coord(2, -1)}, {Coord(2, -1)},
                      [c \in trees \cup {Coord(-1, 0), Coord(0, -1)} |->
                          IF c = Coord(-1, 0) THEN Unit(5, "Village")
                          ELSE IF c = Coord(0, -1) THEN Unit(6, "Village")
                          ELSE Unit(6 + (CHOOSE k \in 1..Len(order) : order[k] = c),
                                    "PineTree")]),
                3 :> Region(1, {Coord(0, 0), Coord(0, 1), Coord(-1, 1), Coord(-1, 0)})
                @@ 4 :> Region(2, {Coord(1, 0), Coord(1, -1), Coord(0, -1)})),
            <<1, 2>>, 6 + Cardinality(trees))

ForestEngines ==
    {RowForest} \cup {GroveEngine(T) : T \in {S \in SUBSET GroveFree : Cardinality(S) <= 2}}

InitForest ==
    /\ \E e \in ForestEngines :
          /\ players = e.players
          /\ player_activity = e.player_activity
          /\ winner = e.winner
          /\ current_turn = e.current_turn
          /\ active_player_num = e.active_player_num
          /\ map = e.map
          /\ regions = e.regions
          /\ coordinate_to_region = e.coordinate_to_region
          /\ region_info = e.region_info
          /\ unit_info = e.unit_info
          /\ id_producer = e.id_producer
    /\ call = NoCall
    /\ result = NoResult

\* one call act(player_id, EndTurn), followed until turn MaxForestTurn begins
EndTurnOnly ==
    /\ result = NoResult
    /\ (current_turn < MaxForestTurn \/ winner # NO_ID)
    /\ \E p \in PlayerInputs : \E o \in act(Engine, p, EndTurnAction) :
          /\ Becomes(o.e)
          /\ result' = IF o.e.panic THEN Panicked ELSE o.res
          /\ call' = [player |-> p, kind |-> EndTurnAction.kind,
                       region_id |-> EndTurnAction.region_id,
                       unit_type |-> EndTurnAction.unit_type,
                       src |-> EndTurnAction.src, dst |-> EndTurnAction.dst]

NextForest == EndTurnOnly \/ Return

SpecForest == InitForest /\ [][NextForest]_vars

\* RegionTransformation: Delete(id), Split{from, into} and Merge{from, into}
Delete(id) == [kind |-> "Delete", from |-> id, into |-> <<>>]
Split(from, into) == [kind |-> "Split", from |-> from, into |-> into]
Merge(from, into) == [kind |-> "Merge", from |-> from, into |-> <<into>>]

\* a list of transformations that leaves out the deleted region
performed_actions_NoDelete(res, merged, region_id) ==
    (IF res.split # <<>> THEN <<Split(res.split[1], res.split)>> ELSE <<>>)
    \o [i \in 1..Len(merged) |-> Merge(merged[i], region_id)]

\* the Vec that Location::add_tile_to_region returns: the Delete or the Split
\* pushed on leaving the old region, then one Merge for each id of merge_ids
\* in the order the HashSet is iterated
performed_actions(res, merged, region_id) ==
    (IF res.delete # NO_ID THEN <<Delete(res.delete)>> ELSE <<>>)
    \o (IF res.split # <<>> THEN <<Split(res.split[1], res.split)>> ELSE <<>>)
    \o [i \in 1..Len(merged) |-> Merge(merged[i], region_id)]

\* the calls on a location are followed while the ids stay within this bound
MaxLocationId == 11

\* one call location.add_tile_to_region(coordinate, region_id, id_producer)
\* on the location alone: the Err of validate_and_prepare_add_tile, or the
\* changed location with the list of transformations
AddTile ==
    /\ result = NoResult
    /\ \E coordinate \in CoordInputs, region_id \in RegionInputs :
          LET error == prepare_add_tile_error(Engine, coordinate, region_id) IN
          /\ call' = [player |-> NO_ID, kind |-> "AddTile", region_id |-> region_id,
                       unit_type |-> "None", src |-> <<>>, dst |-> coordinate]
          /\ IF error # "Ok"
             THEN /\ UNCHANGED EngineVars
                  /\ result' = IF error = "NoSuchRegion"
                                THEN ErrId(error, region_id)
                                ELSE ErrCoord(error, coordinate)
             ELSE \E o \in location_add_tile(Engine, coordinate, region_id) :
                     /\ (o.e.panic \/ o.e.id_producer <= MaxLocationId)
                     /\ Becomes(o.e)
                     /\ \E merged \in Orders(o.res.merge) :
                           result' = IF o.e.panic THEN Panicked
                                      ELSE Res("Ok", performed_actions(o.res, merged, region_id),
                                               "None")

\* the locations of the engines above
LocationEngines == InitialEngines \cup {GapEngine, CrossEngine}

InitLocation ==
    /\ \E e \in LocationEngines :
          /\ players = e.players
          /\ player_activity = e.player_activity
          /\ winner = e.winner
          /\ current_turn = e.current_turn
          /\ active_player_num = e.active_player_num
          /\ map = e.map
          /\ regions = e.regions
          /\ coordinate_to_region = e.coordinate_to_region
          /\ region_info = e.region_info
          /\ unit_info = e.unit_info
          /\ id_producer = e.id_producer
    /\ call = NoCall
    /\ result = NoResult

NextLocation == AddTile \/ Return

SpecLocation == InitLocation /\ [][NextLocation]_vars


-----------------------------------------------------------------------------
(* Properties *)

\* the player whose turn it is; NO_ID when the index ran past the list
ActivePlayerId ==
    IF active_player_num < Len(players) THEN players[active_player_num + 1] ELSE NO_ID

\* the last call returned Ok(())
Succeeded == result.kind = "Ok"

\* the step is a call of act() that returned
Called == call' # NoCall /\ result'.kind # "Panic"

\* the regions of an owner
RegionsOf(owner) == {r \in DOMAIN regions : regions[r].owner = owner}

\* the coordinates of a region that hold a Village
VillagesIn(r) == {c \in regions[r].coordinates : map[c].unit.unit_type = "Village"}

\* C1: act() never panics: whatever the state and the call, it returns Ok
\* or a PlayerActionError.
C1_ActNeverPanics == result.kind # "Panic"

\* C2: after construction and after any sequence of successful actions,
\* every region of at least MIN_CONTROLLED_REGION_SIZE tiles holds exactly
\* one Village.
C2_OneVillagePerControlledRegion ==
    result.kind # "Panic" =>
        \A r \in DOMAIN regions :
            Cardinality(regions[r].coordinates) >= MIN_CONTROLLED_REGION_SIZE
                => Cardinality(VillagesIn(r)) = 1

\* a successful capture left a region that had to get a new Village
C2_Witness ==
    /\ Succeeded
    /\ call.kind = "MoveUnit"
    /\ \E r \in DOMAIN regions :
          /\ Cardinality(regions[r].coordinates) >= MIN_CONTROLLED_REGION_SIZE
          /\ \E c \in VillagesIn(r) : map[c].unit.id > HubEngine.id_producer

\* C3: in every reachable state every land tile is in exactly one region
\* and no water tile is in any region.
C3_LandInOneRegionWaterInNone ==
    \A c \in DOMAIN map :
        LET holders == {r \in DOMAIN regions : c \in regions[r].coordinates} IN
        IF map[c].surface = "Land" THEN Cardinality(holders) = 1 ELSE holders = {}

\* a tile changed hands: the centre, player 1's at the start, is player 2's
C3_Witness ==
    /\ Succeeded
    /\ \E r \in RegionsOf(2) : Coord(0, 0) \in regions[r].coordinates
    /\ \E c \in DOMAIN map : map[c].surface = "Water"

\* C4: in every reachable state no two different regions of one owner hold
\* neighbouring coordinates.
C4_NoAdjacentRegionsOfOneOwner ==
    \A r1, r2 \in DOMAIN regions :
        (r1 # r2 /\ regions[r1].owner = regions[r2].owner) =>
            \A c1 \in regions[r1].coordinates :
                neighbors(c1) \cap regions[r2].coordinates = {}

\* a capture joined the regions it touched: player 2, who started with three
\* single tiles, holds one region of the centre and all three
C4_Witness ==
    /\ Succeeded
    /\ \E r \in RegionsOf(2) :
          {Coord(0, 0), Coord(1, 0), Coord(0, -1), Coord(-1, 1)} \subseteq regions[r].coordinates

\* a set of coordinates is in one piece when no proper part of it is cut
\* off from the rest
InOnePiece(coords) ==
    \A part \in SUBSET coords :
        (part # {} /\ part # coords) =>
            \E c \in part : neighbors(c) \cap (coords \ part) # {}

\* C5: in every reachable state every region is non-empty and contiguous,
\* also after a capture cut the old region into two or three parts.
C5_RegionsNonEmptyAndContiguous ==
    \A r \in DOMAIN regions :
        regions[r].coordinates # {} /\ InOnePiece(regions[r].coordinates)

\* the capture of the centre cut player 1's region into its three arms
C5_Witness ==
    /\ call.kind = "MoveUnit"
    /\ Cardinality(RegionsOf(1)) = 3
    /\ \A r \in RegionsOf(1) : Cardinality(regions[r].coordinates) = 1

\* ids of the units that stand on tiles
UnitIdsOnMap == {map[c].unit.id : c \in {x \in DOMAIN map : map[x].unit # NoUnit}}

\* C6: after construction and after every successful action region_info has
\* exactly the region ids as keys and unit_info exactly the ids of the units
\* on the map.
C6_InfoKeysMatch ==
    result.kind # "Panic" =>
        /\ DOMAIN region_info = DOMAIN regions
        /\ DOMAIN unit_info = UnitIdsOnMap

\* a successful action made and removed regions and units together with
\* their infos
C6_Witness ==
    /\ Succeeded
    /\ DOMAIN regions # DOMAIN HubEngine.regions
    /\ DOMAIN unit_info # DOMAIN HubEngine.unit_info

\* C7: a call that returns a PlayerActionError leaves the whole engine as
\* it was: balances, units and their moves, regions, player activity, the
\* active player, the turn, the winner and the id producer.
C7_ErrorChangesNothing ==
    [][(Called /\ result'.kind # "Ok") => UNCHANGED EngineVars]_vars

\* an upgrade the region cannot pay for was refused
C7_Witness ==
    /\ call.kind = "UpgradeUnit"
    /\ result.kind = "NotEnoughMoney"

\* C8: a call by anyone but the active player fails with OtherPlayersTurn
\* carrying the active player's id, whatever the action is and whatever
\* else is wrong with the call or the game.
C8_OtherPlayersTurnFirst ==
    [][(call' # NoCall /\ ActivePlayerId # NO_ID /\ call'.player # ActivePlayerId) =>
          /\ result' = ErrId("OtherPlayersTurn", ActivePlayerId)
          /\ UNCHANGED EngineVars]_vars

\* EndTurn by the player who is not active was refused in a finished game
C8_Witness ==
    /\ call.kind = "EndTurn"
    /\ call.player # ActivePlayerId
    /\ result.kind = "OtherPlayersTurn"
    /\ winner # NO_ID

\* C9 as stated: once winner is set, every call by any player fails with
\* GameAlreadyFinished and changes nothing.
C9_EveryCallGameAlreadyFinished ==
    [][(call' # NoCall /\ winner # NO_ID) =>
          /\ result'.kind = "GameAlreadyFinished"
          /\ UNCHANGED EngineVars]_vars

\* C9 amended: once winner is set, every call changes nothing; it fails with
\* GameAlreadyFinished when the active player makes it and with
\* OtherPlayersTurn when anyone else does.
C9_FinishedGameRefusesCalls ==
    [][(call' # NoCall /\ winner # NO_ID) =>
          /\ UNCHANGED EngineVars
          /\ result' = IF call'.player = ActivePlayerId
                       THEN Res("GameAlreadyFinished", <<>>, "None")
                       ELSE ErrId("OtherPlayersTurn", ActivePlayerId)]_vars

\* the winner's own call was refused with GameAlreadyFinished
C9_Witness ==
    /\ winner # NO_ID
    /\ call.player = ActivePlayerId
    /\ call.kind # "EndTurn"
    /\ result.kind = "GameAlreadyFinished"

\* the players marked active
StillActive == {p \in DOMAIN player_activity : player_activity[p]}

\* C10 as stated: after a successful call, if exactly one player is marked
\* active then winner is that player.
C10_LastPlayerIsWinner ==
    (Succeeded /\ Cardinality(StillActive) = 1) => winner \in StillActive

\* C10 amended: after a successful call that rolled the turn over, if
\* exactly one player is marked active then winner is that player.
C10_LastPlayerIsWinnerAfterRollover ==
    [][(result'.kind = "Ok" /\ current_turn' # current_turn
         /\ Cardinality({p \in DOMAIN player_activity' : player_activity'[p]}) = 1)
        => winner' \in {p \in DOMAIN player_activity' : player_activity'[p]}]_vars

\* the rollover made the last player standing the winner
C10_Witness ==
    /\ Succeeded
    /\ call.kind = "EndTurn"
    /\ current_turn > HubEngine.current_turn
    /\ Cardinality(StillActive) = 1
    /\ winner \in StillActive

\* positions (1-based) in the list of players of those marked active in
\* the map `activity`
ActivePositions(list, activity) == {i \in 1..Len(list) : activity[list[i]]}

\* the least number of a non-empty set of numbers
Least(S) == CHOOSE x \in S : \A y \in S : x <= y

\* C11: a successful EndTurn hands the turn to the next player in list
\* order that is marked active and leaves the turn counter as it is; when no
\* player marked active comes later in the list, the turn counter grows by
\* exactly 1 and the first player in list order that is marked active is the
\* active player.
C11_EndTurnHandsOver ==
    [][(call'.kind = "EndTurn" /\ result'.kind = "Ok") =>
          LET later == {i \in ActivePositions(players, player_activity) :
                          i > active_player_num + 1}
              after == ActivePositions(players', player_activity')
          IN  IF later # {}
              THEN /\ current_turn' = current_turn
                   /\ active_player_num' + 1 = Least(later)
              ELSE /\ current_turn' = current_turn + 1
                   /\ after # {}
                   /\ active_player_num' + 1 = Least(after)]_vars

\* the first of three players ended the turn and the second, who had lost
\* everything, was passed over
C11_Witness ==
    /\ call.kind = "EndTurn"
    /\ Succeeded
    /\ Len(players) = 3
    /\ call.player = players[1]
    /\ ~player_activity[players[2]]
    /\ ActivePlayerId = players[3]
    /\ current_turn = 1

\* the last player ended the turn, the turn rolled over and the first
\* player in the list, inactive, was passed over
C11_WitnessRollover ==
    /\ call.kind = "EndTurn"
    /\ Succeeded
    /\ current_turn = 2
    /\ ~player_activity[players[1]]
    /\ ActivePlayerId = players[2]

\* the regions of the owner of region `r`, other than `r`, that touch the
\* tile `dst` which is not part of `r`: the regions a capture of `dst` for
\* `r` merges into `r`
MergedByCapture(r, dst) ==
    IF coordinate_to_region[dst] = r THEN {}
    ELSE {q \in DOMAIN regions \ {r} :
             /\ regions[q].owner = regions[r].owner
             /\ regions[q].coordinates \cap neighbors(dst) # {}}

MoneyOf(S) == SumOver(S, [q \in S |-> region_info[q].money_balance])

MovesOwnUnit ==
    /\ call'.kind = "MoveUnit"
    /\ result'.kind # "Panic"
    /\ winner = NO_ID
    /\ call'.player = ActivePlayerId
    /\ call'.src \in DOMAIN coordinate_to_region
    /\ call'.dst \in DOMAIN coordinate_to_region
    /\ regions[coordinate_to_region[call'.src]].owner = call'.player
    /\ map[call'.src].unit # NoUnit

\* length of the shortest path from `from` to `to` over tiles of region `r`
PathInRegion(r, from, to) ==
    bfs_distance([map |-> map], from, to, regions[r].coordinates)

\* C13: a MoveUnit to an empty tile of the unit's own region, d being the
\* length of the shortest path inside the region and m the moves the unit has
\* left, succeeds when m >= d and leaves the unit on dst with m - d moves;
\* when m < d it fails with NotEnoughMoves(m, d) and changes nothing.
C13_MoveInsideRegion ==
    [][(/\ MovesOwnUnit
        /\ coordinate_to_region[call'.dst] = coordinate_to_region[call'.src]
        /\ map[call'.dst].unit = NoUnit) =>
          LET unit == map[call'.src].unit
              m == unit_info[unit.id].moves_left
              d == PathInRegion(coordinate_to_region[call'.src], call'.src, call'.dst)
          IN  IF m >= d
              THEN /\ result'.kind = "Ok"
                   /\ map'[call'.dst].unit = unit
                   /\ map'[call'.src].unit = NoUnit
                   /\ unit_info'[unit.id].moves_left = m - d
              ELSE /\ result' = Res("NotEnoughMoves", <<m, d>>, "None")
                   /\ UNCHANGED EngineVars]_vars

\* a unit that had spent its moves was refused a step inside its region
C13_WitnessRefused ==
    /\ call.kind = "MoveUnit"
    /\ result = Res("NotEnoughMoves", <<0, 1>>, "None")
    /\ map[call.src].unit.unit_type = "Militia"
    /\ map[call.dst].unit = NoUnit
    /\ coordinate_to_region[call.dst] = coordinate_to_region[call.src]
    /\ unit_info[map[call.src].unit.id].moves_left = 0

\* a unit moved two steps inside its region and has two of its four moves left
C13_Witness ==
    /\ call.kind = "MoveUnit"
    /\ Succeeded
    /\ map[call.dst].unit # NoUnit
    /\ map[call.src].unit = NoUnit
    /\ coordinate_to_region[call.dst] = coordinate_to_region[call.src]
    /\ call.dst \notin neighbors(call.src)
    /\ unit_info[map[call.dst].unit.id].moves_left = 2

\* the tile dst of the call that has just returned was, before the call, a
\* tile of another region than the one the moved unit stood in
EntersOtherRegion == coordinate_to_region[call'.dst] # coordinate_to_region[call'.src]

\* the tile dst held, before the call, a grave or a tree
LandsOnRemains ==
    /\ map[call'.dst].unit # NoUnit
    /\ is_unownable(description(map[call'.dst].unit.unit_type))

\* C14: after a successful MoveUnit that enters a tile of another region or
\* lands on a tile that held a unit (an enemy unit, a grave, a tree), the
\* moved unit has no moves left, whatever the distance and whatever moves it
\* had before.
C14_CaptureSpendsAllMoves ==
    [][(/\ MovesOwnUnit
        /\ result'.kind = "Ok"
        /\ (EntersOtherRegion \/ LandsOnRemains)) =>
          LET unit == map[call'.src].unit
          IN  /\ unit.id \in DOMAIN unit_info'
              /\ unit_info'[unit.id].moves_left = 0]_vars

\* a unit that had all four moves took a tile of another region at distance
\* one and has no moves left
C14_Witness ==
    /\ call.kind = "MoveUnit"
    /\ Succeeded
    /\ call.dst \in neighbors(call.src)
    /\ map[call.dst].unit.unit_type = "Soldier"
    /\ unit_info[map[call.dst].unit.id].moves_left = 0
    /\ current_turn = 1
    /\ Cardinality(regions[coordinate_to_region[call.dst]].coordinates) = 4

\* the Militia of the row of seven tiles stepped on the Grave of its own
\* region, which is gone, and has no moves left
C14_WitnessGrave ==
    /\ call.kind = "MoveUnit"
    /\ Succeeded
    /\ call.dst = Coord(3, 0)
    /\ Cardinality(DOMAIN map) = 7
    /\ map[call.dst].unit.unit_type = "Militia"
    /\ unit_info[map[call.dst].unit.id].moves_left = 0
    /\ \A c \in DOMAIN map : map[c].unit.unit_type # "Grave"

\* what C15 says of a successful MoveUnit onto a tile of another region,
\* apart from the tile src: the mover stands on dst, src and dst are in the
\* mover's region, the region that contained dst does not contain it any
\* more, and the unit that stood on dst has no unit_info entry
CapturedTile ==
    LET mover == map[call'.src].unit
        home == coordinate_to_region[call'.src]
        lost == coordinate_to_region[call'.dst]
        beaten == map[call'.dst].unit
    IN  /\ map'[call'.dst].unit = mover
        /\ coordinate_to_region'[call'.src] = home
        /\ coordinate_to_region'[call'.dst] = home
        /\ call'.dst \in regions'[home].coordinates
        /\ (lost \in DOMAIN regions' => call'.dst \notin regions'[lost].coordinates)
        /\ (beaten # NoUnit => beaten.id \notin DOMAIN unit_info')

C15_WitnessRow ==
    /\ call.kind = "MoveUnit"
    /\ Succeeded
    /\ map[call.src].unit = NoUnit
    /\ map[call.dst].unit.unit_type = "Soldier"
    /\ coordinate_to_region[call.src] = coordinate_to_region[call.dst]
    /\ Len(players) = 3
    /\ ~player_activity[players[2]]
    /\ Cardinality(DOMAIN unit_info) = 5

MergesOnDst ==
    /\ map[call'.dst].unit # NoUnit
    /\ regions[coordinate_to_region[call'.dst]].owner = call'.player
    /\ merge_result(map[call'.src].unit.unit_type, map[call'.dst].unit.unit_type)
          # map[call'.src].unit.unit_type

\* C16: when a successful MoveUnit lands a unit on a unit of the same owner
\* and merge_result gives a type other than the mover's, both units are
\* replaced by one fresh unit of the merged type on dst; it has the max_moves
\* of its type if the unit merged into had its full moves before the move,
\* and no moves otherwise.
C16_MergeMakesFreshUnit ==
    [][(MovesOwnUnit /\ result'.kind = "Ok" /\ MergesOnDst) =>
          LET mover == map[call'.src].unit
              goal == map[call'.dst].unit
              fresh == map'[call'.dst].unit
          IN  /\ fresh.unit_type = merge_result(mover.unit_type, goal.unit_type)
              /\ fresh.id \notin DOMAIN unit_info
              /\ fresh.id \in DOMAIN unit_info'
              /\ mover.id \notin DOMAIN unit_info'
              /\ goal.id \notin DOMAIN unit_info'
              /\ map'[call'.src].unit = NoUnit
              /\ unit_info'[fresh.id].moves_left =
                    IF unit_info[goal.id].moves_left = description(goal.unit_type).max_moves
                    THEN description(fresh.unit_type).max_moves
                    ELSE 0]_vars

\* a Soldier was moved onto a Militia that had its full moves: a Knight with
\* full moves stands on dst
C16_Witness ==
    /\ call.kind = "MoveUnit"
    /\ Succeeded
    /\ map[call.src].unit = NoUnit
    /\ map[call.dst].unit.unit_type = "Knight"
    /\ unit_info[map[call.dst].unit.id].moves_left = description("Knight").max_moves
    /\ \A c \in DOMAIN map : map[c].unit.unit_type # "Soldier"

\* a Militia was moved onto a Soldier that had spent its moves on a capture:
\* a Knight without moves stands on dst
C16_WitnessSpent ==
    /\ call.kind = "MoveUnit"
    /\ Succeeded
    /\ map[call.src].unit = NoUnit
    /\ map[call.dst].unit.unit_type = "Knight"
    /\ unit_info[map[call.dst].unit.id].moves_left = 0
    /\ current_turn = 1

\* the upgrade chain of C17, as pairs <<type, next type>>
UpgradeChain ==
    {<<"Militia", "Soldier">>, <<"Soldier", "Knight">>, <<"Knight", "GreatKnight">>}

\* C17: a successful UpgradeUnit(dst) replaces the unit on dst by a fresh
\* unit of the next type in the chain Militia, Soldier, Knight, GreatKnight,
\* with no moves left, and lowers the balance of the region of dst by exactly
\* the purchase cost of the new type minus that of the old; it succeeds only
\* if the caller owns the region, a unit stands on dst, the unit has an
\* upgrade and the balance is at least that difference.
C17_UpgradeReplacesAndCharges ==
    [][(call'.kind = "UpgradeUnit" /\ result'.kind = "Ok") =>
          /\ call'.dst \in DOMAIN coordinate_to_region
          /\ regions[coordinate_to_region[call'.dst]].owner = call'.player
          /\ map[call'.dst].unit # NoUnit
          /\ LET r == coordinate_to_region[call'.dst]
                 old == map[call'.dst].unit
                 fresh == map'[call'.dst].unit
                 sum == description(fresh.unit_type).purchase_cost
                        - description(old.unit_type).purchase_cost
             IN  /\ <<old.unit_type, fresh.unit_type>> \in UpgradeChain
                 /\ description(old.unit_type).upgrades_to = fresh.unit_type
                 /\ fresh.id \notin DOMAIN unit_info
                 /\ old.id \notin DOMAIN unit_info'
                 /\ unit_info'[fresh.id] = NewUnitInfo(fresh.unit_type)
                 /\ region_info[r].money_balance >= sum
                 /\ coordinate_to_region'[call'.dst] = r
                 /\ region_info'[r].money_balance = region_info[r].money_balance - sum]_vars

\* a Militia that had its four moves was upgraded: a Soldier without moves
\* stands on dst and the region that had 10 has nothing left
C17_Witness ==
    /\ call.kind = "UpgradeUnit"
    /\ Succeeded
    /\ map[call.dst].unit.unit_type = "Soldier"
    /\ unit_info[map[call.dst].unit.id].moves_left = 0
    /\ region_info[coordinate_to_region[call.dst]].money_balance = 0
    /\ current_turn = 1

\* the call that has just returned was an EndTurn that rolled the turn over
RolledOver ==
    /\ call'.kind = "EndTurn"
    /\ result'.kind = "Ok"
    /\ current_turn' = current_turn + 1

\* sum of the turn costs of the units that stand on the tiles of region r
UpkeepOf(r) ==
    SumOver(regions[r].coordinates,
            [c \in regions[r].coordinates |->
                IF map[c].unit = NoUnit THEN 0
                ELSE description(map[c].unit.unit_type).turn_cost])

\* what the income step adds to the balance of region r
NetIncomeOf(r) == Cardinality(regions[r].coordinates) * EMPTY_TILE_INCOME - UpkeepOf(r)

\* C18 as stated: at each rollover the balance of every region of two or more
\* tiles changes by exactly (tiles * EMPTY_TILE_INCOME) minus the sum of the
\* turn costs of its units, possibly below zero, and the balance of every
\* region of fewer than two tiles does not change, with or without a unit.
C18_IncomeOnlyForControlledRegions ==
    [][RolledOver =>
          \A r \in DOMAIN regions :
             region_info'[r].money_balance =
                IF Cardinality(regions[r].coordinates) >= MIN_CONTROLLED_REGION_SIZE
                THEN region_info[r].money_balance + NetIncomeOf(r)
                ELSE region_info[r].money_balance]_vars

\* the balance of region r after the income step of a rollover that starts
\* in the current state
BalanceAfterIncome(r) ==
    IF /\ Cardinality(regions[r].coordinates) < MIN_CONTROLLED_REGION_SIZE
       /\ \A c \in regions[r].coordinates : map[c].unit = NoUnit
    THEN region_info[r].money_balance
    ELSE region_info[r].money_balance + NetIncomeOf(r)

\* the unit u, on a tile of region r, starves in the rollover: the region
\* goes below zero and the unit is ownable and costs upkeep
Starves(r, u) ==
    /\ BalanceAfterIncome(r) < 0
    /\ ~is_unownable(description(u.unit_type))
    /\ description(u.unit_type).turn_cost > 0

\* a Grave made by the call stands on tile c in place of the unit u
GraveInPlaceOf(c, u) ==
    /\ map'[c].unit.unit_type = "Grave"
    /\ map'[c].unit.id \notin DOMAIN unit_info
    /\ u.id \notin DOMAIN unit_info'

\* C19 as stated: after a rollover, in every region whose balance after the
\* income step is negative every ownable unit with a turn cost has been
\* replaced by a Grave on the same tile; trees, graves and units without
\* upkeep in that region, and all units in regions with a balance of zero or
\* more, are left as they were.
C19_OnlyStarvingUnitsChange ==
    [][RolledOver =>
          \A r \in DOMAIN regions : \A c \in regions[r].coordinates :
             map[c].unit # NoUnit =>
                IF Starves(r, map[c].unit)
                THEN GraveInPlaceOf(c, map[c].unit)
                ELSE map'[c].unit = map[c].unit]_vars

\* C19, amended: as stated, except that a Grave that stood on a tile before
\* the rollover, in whatever region, has been replaced by a PineTree.
C19_StarvingUnitsDieGravesGrowOver ==
    [][RolledOver =>
          \A r \in DOMAIN regions : \A c \in regions[r].coordinates :
             map[c].unit # NoUnit =>
                IF Starves(r, map[c].unit)
                THEN GraveInPlaceOf(c, map[c].unit)
                ELSE IF map[c].unit.unit_type = "Grave"
                THEN /\ map'[c].unit.unit_type = "PineTree"
                     /\ map[c].unit.id \notin DOMAIN unit_info'
                ELSE map'[c].unit = map[c].unit]_vars

\* the turn rolled over and left a Grave in a region of two tiles or more
\* whose balance is below zero, next to its Village and to a PineTree
C19_Witness ==
    /\ call.kind = "EndTurn"
    /\ Succeeded
    /\ current_turn = 2
    /\ \E r \in DOMAIN regions :
          /\ region_info[r].money_balance < 0
          /\ \E c \in regions[r].coordinates : map[c].unit.unit_type = "Grave"
          /\ \E c \in regions[r].coordinates : map[c].unit.unit_type = "Village"
          /\ \E c \in regions[r].coordinates : map[c].unit.unit_type = "PineTree"

\* every unit on the map has the max_moves of its type left
AllRefilled ==
    \A c \in DOMAIN map :
       map[c].unit # NoUnit =>
          /\ map[c].unit.id \in DOMAIN unit_info
          /\ unit_info[map[c].unit.id].moves_left
                = description(map[c].unit.unit_type).max_moves

\* C20: right after construction and right after every rollover every unit
\* on the map, of every player, has the max_moves of its type left; between
\* rollovers no call raises the moves_left of a unit that exists before and
\* after it.
C20_MovesRefilledOnlyAtRollover ==
    /\ AllRefilled
    /\ [][/\ RolledOver => AllRefilled'
          /\ (Called /\ ~RolledOver) =>
                \A id \in DOMAIN unit_info \cap DOMAIN unit_info' :
                   unit_info'[id].moves_left <= unit_info[id].moves_left]_vars

\* the turn rolled over and the Soldier that had spent its moves taking the
\* tile (3, 0) of the row has its four moves again
C20_Witness ==
    /\ call.kind = "EndTurn"
    /\ Succeeded
    /\ current_turn = 2
    /\ Len(players) = 3
    /\ map[Coord(3, 0)].unit.unit_type = "Soldier"
    /\ unit_info[map[Coord(3, 0)].unit.id].moves_left = STANDARD_MOVES_NUM
    /\ AllRefilled

\* player p owns, after the call, a region of two tiles or more or a region
\* of one tile with a unit that can move on it
QualifiesAfter(p) ==
    \E r \in DOMAIN regions' :
       /\ regions'[r].owner = p
       /\ \/ Cardinality(regions'[r].coordinates) >= MIN_CONTROLLED_REGION_SIZE
          \/ \E c \in regions'[r].coordinates :
                /\ map'[c].unit # NoUnit
                /\ description(map'[c].unit.unit_type).max_moves > 0

\* C21: right after any successful action a player that was active and now
\* owns no qualifying region (one of two tiles or more, or one tile with a
\* unit of max_moves > 0) is marked inactive and every region it owns has a
\* balance of 0; a player that owns a qualifying region stays active.
C21_ActivityFollowsRegions ==
    [][(call' # NoCall /\ result'.kind = "Ok") =>
          \A p \in DOMAIN player_activity :
             player_activity[p] =>
                IF QualifiesAfter(p)
                THEN player_activity'[p]
                ELSE /\ ~player_activity'[p]
                     /\ \A r \in DOMAIN regions' :
                           regions'[r].owner = p => region_info'[r].money_balance = 0]_vars

\* a capture left player 2 one empty tile, the one its Village stood on:
\* the player is inactive and the region, which had 10, has nothing
C21_Witness ==
    /\ call.kind = "MoveUnit"
    /\ Succeeded
    /\ current_turn = 1
    /\ ~player_activity[2]
    /\ \E r \in DOMAIN regions :
          /\ regions[r].owner = 2
          /\ \A c \in regions[r].coordinates : map[c].unit = NoUnit
          /\ region_info[r].money_balance = 0


\* the errors of Location::add_tile_to_region
AddTileErrors == {"CoordinateOutOfLocation", "NoSuchRegion", "CoordinateNotAdjacentToRegion"}

\* C22: Location::add_tile_to_region(c, T) fails with
\* CoordinateOutOfLocation(c) when c is not on the map, otherwise with
\* NoSuchRegion(T) when T does not exist, otherwise with
\* CoordinateNotAdjacentToRegion(c) when c is already in T or has no neighbour
\* in T; on each of these errors the map, the regions, the index from
\* coordinates to regions and the id producer are what they were.
C22_AddTileErrorsChangeNothing ==
    [][call'.kind = "AddTile" =>
          /\ call'.dst \notin DOMAIN map =>
                /\ result'.kind = "CoordinateOutOfLocation"
                /\ result'.arg = call'.dst
          /\ (call'.dst \in DOMAIN map /\ call'.region_id \notin DOMAIN regions) =>
                /\ result'.kind = "NoSuchRegion"
                /\ result'.arg = <<call'.region_id>>
          /\ (/\ call'.dst \in DOMAIN map
              /\ call'.region_id \in DOMAIN regions
              /\ \/ call'.dst \in regions[call'.region_id].coordinates
                 \/ neighbors(call'.dst) \cap regions[call'.region_id].coordinates = {}) =>
                /\ result'.kind = "CoordinateNotAdjacentToRegion"
                /\ result'.arg = call'.dst
          /\ result'.kind \in AddTileErrors =>
                UNCHANGED <<map, regions, coordinate_to_region, id_producer>>]_vars

\* a tile that an earlier call moved into a region is added to it again
C22_Witness ==
    /\ call.kind = "AddTile"
    /\ result.kind = "CoordinateNotAdjacentToRegion"
    /\ call.dst \in regions[call.region_id].coordinates
    /\ id_producer > 9
    /\ \E c \in DOMAIN map : c \notin DOMAIN coordinate_to_region

\* a call for a region that does not exist and a coordinate off the map
C22_WitnessOffMap ==
    /\ call.kind = "AddTile"
    /\ result.kind = "CoordinateOutOfLocation"
    /\ call.region_id \notin DOMAIN regions


\* the coordinates of coords that can be walked to from seen
RECURSIVE Grow(_, _)
Grow(seen, coords) ==
    LET more == {c \in coords \ seen : neighbors(c) \cap seen # {}}
    IN  IF more = {} THEN seen ELSE Grow(seen \cup more, coords)

\* the connected components of a set of coordinates
Pieces(coords) == {Grow({c}, coords) : c \in coords}

\* the region of a coordinate before the call, NO_ID for a tile without one
OldRegion(c) == IF c \in DOMAIN coordinate_to_region THEN coordinate_to_region[c] ELSE NO_ID

\* what is left of the old region of c without c
Remnant(c) == IF OldRegion(c) = NO_ID THEN {} ELSE regions[OldRegion(c)].coordinates \ {c}

\* the other regions of the owner of region T that have a tile next to c
MergedInto(c, T) ==
    {r \in DOMAIN regions \ {T} :
        /\ regions[r].owner = regions[T].owner
        /\ neighbors(c) \cap regions[r].coordinates # {}}

\* the transformations of the list from position k on
ListedFrom(list, k) == {list[i] : i \in k..Len(list)}

\* C23: a successful Location::add_tile_to_region(c, T) puts c in T and
\* returns a list that starts with Delete(old) exactly when c was the last
\* tile of its old region, or with Split{from: old, into: [old, fresh ids]}
\* with one id for each connected part exactly when taking c away cut the
\* old region apart, and goes on with exactly one Merge{from: r, into: T}
\* for each other region r of T's owner that has a tile next to c; it holds
\* nothing else, so it is empty when nothing of this happened.
C23_AddTileReturnsTransformations ==
    [][(call'.kind = "AddTile" /\ result'.kind = "Ok") =>
          LET c == call'.dst
              T == call'.region_id
              old == OldRegion(c)
              list == result'.arg
              deleted == old # NO_ID /\ Remnant(c) = {}
              parts == Pieces(Remnant(c))
              split == Cardinality(parts) >= 2
              head == IF deleted \/ split THEN 1 ELSE 0
          IN  /\ c \in regions'[T].coordinates
              /\ coordinate_to_region'[c] = T
              /\ Len(list) = head + Cardinality(MergedInto(c, T))
              /\ deleted => list[1] = Delete(old) /\ old \notin DOMAIN regions'
              /\ split =>
                    /\ list[1].kind = "Split"
                    /\ list[1].from = old
                    /\ Len(list[1].into) = Cardinality(parts)
                    /\ list[1].into[1] = old
                    /\ \A i \in 2..Len(list[1].into) :
                          /\ list[1].into[i] \notin DOMAIN regions
                          /\ list[1].into[i] > id_producer
                          /\ \A j \in 1..(i - 1) : list[1].into[j] # list[1].into[i]
                    /\ {regions'[list[1].into[i]].coordinates : i \in 1..Len(list[1].into)}
                          = parts
              /\ ListedFrom(list, head + 1) = {Merge(r, T) : r \in MergedInto(c, T)}]_vars

\* the centre of the hub goes to a single tile of player 2: the region of
\* player 1 falls into three parts and the two other tiles of player 2 merge
C23_Witness ==
    /\ call.kind = "AddTile"
    /\ result.kind = "Ok"
    /\ Len(result.arg) = 3
    /\ result.arg[1].kind = "Split"
    /\ Len(result.arg[1].into) = 3
    /\ result.arg[2].kind = "Merge"
    /\ result.arg[3].kind = "Merge"

\* the last tile of a region goes to a neighbour, which merges with the
\* region on the other side
C23_WitnessDelete ==
    /\ call.kind = "AddTile"
    /\ result.kind = "Ok"
    /\ Len(result.arg) = 2
    /\ result.arg[1].kind = "Delete"
    /\ result.arg[2].kind = "Merge"

\* nothing but the tile changes hands
C23_WitnessEmpty ==
    /\ call.kind = "AddTile"
    /\ result.kind = "Ok"
    /\ result.arg = <<>>
    /\ \E r \in DOMAIN regions : r # call.region_id /\ regions[r].coordinates # {}


\* the regions after the call that are the parts into which the capture of
\* dst cut its old region
SplitParts(dst) == {r \in DOMAIN regions' : regions'[r].coordinates \in Pieces(Remnant(dst))}

\* those of them that hold money: the parts of two tiles or more
MoneyOwners(dst) ==
    {r \in SplitParts(dst) : Cardinality(regions'[r].coordinates) >= MIN_CONTROLLED_REGION_SIZE}

\* a successful call that took dst from another player and cut the region of
\* dst into two parts or more
SplitsByCapture ==
    /\ call'.kind \in {"MoveUnit", "PlaceNewUnit"}
    /\ result'.kind = "Ok"
    /\ OldRegion(call'.dst) # NO_ID
    /\ regions[OldRegion(call'.dst)].owner # call'.player
    /\ Cardinality(Pieces(Remnant(call'.dst))) >= 2

\* C24: when a capture splits a region whose balance is M, every resulting
\* region of fewer than two tiles has balance 0, and the resulting regions
\* of two tiles or more have balances that differ by at most 1 and add up to
\* exactly M, whatever the sign of M.
C24_SplitSharesBalance ==
    [][SplitsByCapture =>
          LET dst == call'.dst
              M == region_info[OldRegion(dst)].money_balance
          IN  /\ \A r \in SplitParts(dst) \ MoneyOwners(dst) :
                    region_info'[r].money_balance = 0
              /\ \A r, q \in MoneyOwners(dst) :
                    region_info'[r].money_balance - region_info'[q].money_balance <= 1
              /\ MoneyOwners(dst) # {} =>
                    SumOver(MoneyOwners(dst),
                            [r \in MoneyOwners(dst) |-> region_info'[r].money_balance]) = M]_vars


\* a PlaceNewUnit or MoveUnit call by the player whose turn it is, in a game
\* not yet won, from a region of the caller (the region named by
\* PlaceNewUnit, with a type that can be bought, or the region of a unit on
\* src), onto a tile that holds a unit
PlacesOnUnit ==
    /\ call'.kind \in {"PlaceNewUnit", "MoveUnit"}
    /\ result'.kind # "Panic"
    /\ winner = NO_ID
    /\ call'.player = ActivePlayerId
    /\ call'.dst \in DOMAIN coordinate_to_region
    /\ map[call'.dst].unit # NoUnit
    /\ IF call'.kind = "PlaceNewUnit"
       THEN /\ call'.region_id \in DOMAIN regions
            /\ regions[call'.region_id].owner = call'.player
            /\ description(call'.unit_type).is_purchasable
       ELSE /\ call'.src \in DOMAIN coordinate_to_region
            /\ regions[coordinate_to_region[call'.src]].owner = call'.player
            /\ map[call'.src].unit # NoUnit

\* the type of the unit the call places or moves
ActingType ==
    IF call'.kind = "PlaceNewUnit" THEN call'.unit_type ELSE map[call'.src].unit.unit_type

\* dst holds a unit of the caller that the acting type cannot merge with
OntoOwnUnmergeable ==
    /\ regions[coordinate_to_region[call'.dst]].owner = call'.player
    /\ merge_result(ActingType, map[call'.dst].unit.unit_type) = "None"

\* dst holds a unit of another owner that the acting type cannot defeat
OntoUndefeated ==
    /\ regions[coordinate_to_region[call'.dst]].owner # call'.player
    /\ description(ActingType).attack <= description(map[call'.dst].unit.unit_type).defence

\* C25 as stated: PlaceNewUnit or MoveUnit onto a tile holding a unit of the
\* acting player for which merge_result is undefined fails with
\* AlreadyOccupied(dst); onto a tile holding another owner's unit that the
\* acting type cannot defeat it fails with CannotAttack(dst).
C25_OccupiedOrCannotAttack ==
    [][PlacesOnUnit =>
          /\ OntoOwnUnmergeable =>
                (result'.kind = "AlreadyOccupied" /\ result'.arg = call'.dst)
          /\ OntoUndefeated =>
                (result'.kind = "CannotAttack" /\ result'.arg = call'.dst)]_vars

\* C25, amended: both calls fail with InaccessibleLocation(dst), and nothing
\* changes: the stepping rule refuses dst before the occupant is compared.
C25_OccupiedIsInaccessible ==
    [][(PlacesOnUnit /\ (OntoOwnUnmergeable \/ OntoUndefeated)) =>
          /\ result'.kind = "InaccessibleLocation"
          /\ result'.arg = call'.dst
          /\ UNCHANGED EngineVars]_vars

\* a unit was to be placed on the caller's own Village
C25_Witness ==
    /\ call.kind = "PlaceNewUnit"
    /\ result.kind = "InaccessibleLocation"
    /\ winner = NO_ID
    /\ call.player = ActivePlayerId
    /\ call.region_id \in DOMAIN regions
    /\ regions[call.region_id].owner = call.player
    /\ call.unit_type = "Militia"
    /\ call.dst \in regions[call.region_id].coordinates
    /\ map[call.dst].unit # NoUnit
    /\ map[call.dst].unit.unit_type = "Village"

\* a unit was to move onto a unit of another player that is as strong as it is
C25_WitnessAttack ==
    /\ call.kind = "MoveUnit"
    /\ result.kind = "InaccessibleLocation"
    /\ result.arg = call.dst
    /\ winner = NO_ID
    /\ call.player = ActivePlayerId
    /\ call.src \in DOMAIN coordinate_to_region
    /\ call.dst \in DOMAIN coordinate_to_region
    /\ call.dst \in neighbors(call.src)
    /\ regions[coordinate_to_region[call.src]].owner = call.player
    /\ regions[coordinate_to_region[call.dst]].owner # call.player
    /\ map[call.src].unit # NoUnit
    /\ map[call.dst].unit # NoUnit
    /\ description(map[call.src].unit.unit_type).attack
          = description(map[call.dst].unit.unit_type).defence


\* the tiles of the region of src that hold no unit
EmptyTilesOfRegion(src) ==
    {c \in regions[coordinate_to_region[src]].coordinates : map[c].unit = NoUnit}

\* length of the shortest path from src to dst whose tiles between the two
\* are empty tiles of the region of src; -1 when there is none
PathOverEmptyTiles(src, dst) ==
    bfs_distance([map |-> map], src, dst, EmptyTilesOfRegion(src) \cup {src, dst})

\* C26: a MoveUnit succeeds only if a path leads from src to dst over empty
\* tiles of the unit's own region, the unit has the moves for the shortest
\* such path, and a unit that arrives on an empty tile of its region has paid
\* the length of that path: a unit does not pass a tile that holds a unit.
C26_PathOverEmptyTilesOnly ==
    [][(MovesOwnUnit /\ result'.kind = "Ok") =>
          LET unit == map[call'.src].unit
              m == unit_info[unit.id].moves_left
              d == PathOverEmptyTiles(call'.src, call'.dst)
          IN  /\ d # -1
              /\ m >= d
              /\ (/\ coordinate_to_region[call'.dst] = coordinate_to_region[call'.src]
                  /\ map[call'.dst].unit = NoUnit) =>
                    unit_info'[unit.id].moves_left = m - d]_vars


\* the region a PlaceNewUnit names, or the region of the tile a MoveUnit
\* starts from
OriginatingRegion ==
    IF call'.kind = "PlaceNewUnit" THEN call'.region_id ELSE coordinate_to_region[call'.src]

\* a successful PlaceNewUnit or MoveUnit onto a tile of another region than
\* the one it comes from
TakesTile ==
    /\ call'.kind \in {"PlaceNewUnit", "MoveUnit"}
    /\ result'.kind = "Ok"
    /\ coordinate_to_region[call'.dst] # OriginatingRegion

\* the defence of the unit on tile c, that of an empty tile when it has none
DefenceOn(c) ==
    IF map[c].unit = NoUnit THEN EMPTY_TILE_DEFENCE
    ELSE description(map[c].unit.unit_type).defence

\* C27: a unit of type U coming from region R takes a tile dst of another
\* region only if dst is land, a neighbour of dst is a tile of R, and the
\* attack of U is strictly greater than the defence of the unit on dst (that
\* of an empty tile if there is none) and than the defence of every unit on
\* a neighbour of dst that belongs to the region of dst.
C27_TakesOnlyWeakerTiles ==
    [][TakesTile =>
          LET dst == call'.dst
              attack == description(ActingType).attack
          IN  /\ map[dst].surface = "Land"
              /\ neighbors(dst) \cap regions[OriginatingRegion].coordinates # {}
              /\ attack > DefenceOn(dst)
              /\ \A n \in neighbors(dst) \cap regions[coordinate_to_region[dst]].coordinates :
                    attack > DefenceOn(n)]_vars

\* player 1's Knight has taken the tile of player 2's Soldier, which stood
\* next to player 2's Village
C27_Witness ==
    /\ call.kind = "MoveUnit"
    /\ Succeeded
    /\ call.player = 1
    /\ call.dst = Coord(2, 1)
    /\ map[call.dst].unit # NoUnit
    /\ map[call.dst].unit.unit_type = "Knight"
    /\ regions[coordinate_to_region[call.dst]].owner = 1
    /\ regions[coordinate_to_region[Coord(2, 2)]].owner = 2


\* a MoveUnit call by the player whose turn it is, in a game not yet won,
\* from a tile that belongs to a region
MovesFromRegion ==
    /\ call'.kind = "MoveUnit"
    /\ result'.kind # "Panic"
    /\ winner = NO_ID
    /\ call'.player = ActivePlayerId
    /\ call'.src \in DOMAIN coordinate_to_region

\* C28 as stated: MoveUnit{src, dst} fails with NotOwned(src) when the region
\* at src belongs to another player, and with NoUnit(src), the empty source
\* coordinate, when src is a tile of the acting player that holds no unit,
\* whatever dst is.
C28_NotOwnedThenNoUnitAtSrc ==
    [][MovesFromRegion =>
          IF regions[coordinate_to_region[call'.src]].owner # call'.player
          THEN result'.kind = "NotOwned" /\ result'.arg = call'.src
          ELSE map[call'.src].unit = NoUnit =>
                  (result'.kind = "NoUnit" /\ result'.arg = call'.src)]_vars

\* what the calls of C28 return: NotOwned(src) as stated, and a NoUnit that
\* carries the destination coordinate dst
C28_NotOwnedThenNoUnitCarriesDst ==
    [][MovesFromRegion =>
          IF regions[coordinate_to_region[call'.src]].owner # call'.player
          THEN result'.kind = "NotOwned" /\ result'.arg = call'.src
          ELSE map[call'.src].unit = NoUnit =>
                  (result'.kind = "NoUnit" /\ result'.arg = call'.dst)]_vars

\* a move from an empty tile of the caller to another tile was refused
C28_Witness ==
    /\ call.kind = "MoveUnit"
    /\ result.kind = "NoUnit"
    /\ call.src # call.dst
    /\ call.src \in DOMAIN coordinate_to_region
    /\ regions[coordinate_to_region[call.src]].owner = call.player
    /\ map[call.src].unit = NoUnit

\* a move from an empty tile of another player to a tile off the map was
\* refused for the owner of the source
C28_WitnessNotOwned ==
    /\ call.kind = "MoveUnit"
    /\ result.kind = "NotOwned"
    /\ call.dst \notin DOMAIN map
    /\ map[call.src].unit = NoUnit


\* the tiles of region r that hold a Village after the call
VillagesAfter(r) ==
    {c \in regions'[r].coordinates :
        map'[c].unit # NoUnit /\ map'[c].unit.unit_type = "Village"}

\* what fix_capital leaves behind: a region of one tile has no Village, a
\* larger region has exactly one
CapitalFixedAfter(r) ==
    IF Cardinality(regions'[r].coordinates) = 1
    THEN VillagesAfter(r) = {}
    ELSE Cardinality(VillagesAfter(r)) = 1

\* the capture of dst left its old region in one piece and with tiles
ShrankInOnePiece(dst) == Cardinality(Pieces(Remnant(dst))) = 1

\* a PlaceNewUnit or MoveUnit that went through and moved dst from its old
\* region into the region the unit comes from; the call returned Ok or its
\* closing validation found the engine invalid
Captured ==
    /\ call'.kind \in {"PlaceNewUnit", "MoveUnit"}
    /\ result'.kind \in {"Ok", "Panic"}
    /\ call'.dst \in DOMAIN coordinate_to_region
    /\ call'.dst \in DOMAIN coordinate_to_region'
    /\ call'.kind = "MoveUnit" => call'.src \in DOMAIN coordinate_to_region
    /\ coordinate_to_region[call'.dst] # OriginatingRegion
    /\ coordinate_to_region'[call'.dst] = OriginatingRegion

\* C29: after a capture the capital fixup has been applied to every region
\* whose tiles changed: to the region that grew, with or without a merge,
\* and to the old region that shrank and stayed in one piece, with or without
\* a merge into the region that grew.
C29_FixupOnEveryChangedRegion ==
    [][Captured =>
          /\ CapitalFixedAfter(coordinate_to_region'[call'.dst])
          /\ ShrankInOnePiece(call'.dst) =>
                CapitalFixedAfter(coordinate_to_region[call'.dst])]_vars


\* the tiles of a set that hold a Village before the call
VillagesOn(coords) ==
    {c \in coords : map[c].unit # NoUnit /\ map[c].unit.unit_type = "Village"}

\* the tiles of a set that hold a Village after the call
VillagesLeftOn(coords) ==
    {c \in coords : map'[c].unit # NoUnit /\ map'[c].unit.unit_type = "Village"}

\* C30: after a capture, each part that is left of the old region and has at
\* least two tiles and no Village holds exactly one Village, a new one, on a
\* tile that was empty if the part had one and otherwise in place of a unit;
\* a part of exactly one tile holds no Village, and a unit other than a
\* Village standing on it is still there.
C30_RemnantsGetTheirCapital ==
    [][TakesTile =>
          \A part \in Pieces(Remnant(call'.dst)) :
             IF Cardinality(part) >= MIN_CONTROLLED_REGION_SIZE
             THEN VillagesOn(part) = {} =>
                     /\ Cardinality(VillagesLeftOn(part)) = 1
                     /\ \A c \in VillagesLeftOn(part) :
                           /\ map'[c].unit.id \notin DOMAIN unit_info
                           /\ (\E e \in part : map[e].unit = NoUnit) => map[c].unit = NoUnit
                     /\ \A c \in part \ VillagesLeftOn(part) : map'[c].unit = map[c].unit
             ELSE \A c \in part :
                     /\ VillagesLeftOn({c}) = {}
                     /\ VillagesOn({c}) = {} => map'[c].unit = map[c].unit]_vars

\* the call that has just returned was an EndTurn whose winner check set
\* the winner
SetsWinner ==
    /\ call'.kind = "EndTurn"
    /\ result'.kind = "Ok"
    /\ winner = NO_ID
    /\ winner' # NO_ID

\* C31 as stated: when the winner check of a rollover sets a winner, the
\* rollover stops there: the turn counter is not advanced and the index of
\* the active player is not reset (it stays past the end of the list of
\* players, where the rollover found it).
C31_WinnerHaltsRollover ==
    [][SetsWinner =>
          /\ current_turn' = current_turn
          /\ active_player_num' >= Len(players)]_vars

\* C31 amended: when the winner check of a rollover sets a winner, the
\* rollover goes on as any other: the turn counter grows by exactly 1 and
\* the index of the active player is reset to the first player marked
\* active, who is the winner.
C31_WinnerRolloverRunsOn ==
    [][SetsWinner =>
          /\ current_turn' = current_turn + 1
          /\ active_player_num' < Len(players)
          /\ players[active_player_num' + 1] = winner']_vars

\* the rollover of turn 1 has set the winner, turn 2 has begun and the
\* winner is the active player
C31_Witness ==
    /\ call.kind = "EndTurn"
    /\ Succeeded
    /\ winner # NO_ID
    /\ current_turn = 2
    /\ ActivePlayerId = winner

\* the tiles that hold a Grave before the call
GravesOnMap == {c \in DOMAIN map : map[c].unit.unit_type = "Grave"}

\* the call that has just returned moved or placed a unit onto tile c
SteppedOn(c) ==
    /\ call'.kind \in {"MoveUnit", "PlaceNewUnit"}
    /\ result'.kind = "Ok"
    /\ call'.dst = c

\* C32 as stated: every Grave on the map when a rollover starts is a
\* PineTree when it ends; a unit that starves in the rollover is a Grave when
\* the rollover ends (the conversion runs before the starvation); and between
\* rollovers a Grave stays as it is unless a unit is moved or placed onto its
\* tile, so that it is there for the next rollover to convert.
C32_GravesLastOneTurn ==
    [][/\ RolledOver =>
             /\ \A c \in GravesOnMap : map'[c].unit.unit_type = "PineTree"
             /\ \A r \in DOMAIN regions : \A c \in regions[r].coordinates :
                    (map[c].unit # NoUnit /\ Starves(r, map[c].unit)) =>
                        map'[c].unit.unit_type = "Grave"
       /\ (Called /\ ~RolledOver) =>
             \A c \in GravesOnMap : SteppedOn(c) \/ map'[c].unit = map[c].unit]_vars

\* the call that has just returned took a tile and left a new Village in
\* place of the unit on tile c
CapitalSetUpOn(c) ==
    /\ call'.kind \in {"MoveUnit", "PlaceNewUnit"}
    /\ result'.kind = "Ok"
    /\ coordinate_to_region'[call'.dst] # coordinate_to_region[call'.dst]
    /\ map'[c].unit.unit_type = "Village"
    /\ map'[c].unit.id \notin DOMAIN unit_info

\* C32 amended: as stated, except that between rollovers a Grave is also
\* lost when a capture leaves its region without Village and without empty
\* tile and the new Village is set up in its place.
C32_GravesLastUnlessReplaced ==
    [][/\ RolledOver =>
             /\ \A c \in GravesOnMap : map'[c].unit.unit_type = "PineTree"
             /\ \A r \in DOMAIN regions : \A c \in regions[r].coordinates :
                    (map[c].unit # NoUnit /\ Starves(r, map[c].unit)) =>
                        map'[c].unit.unit_type = "Grave"
       /\ (Called /\ ~RolledOver) =>
             \A c \in GravesOnMap :
                \/ SteppedOn(c)
                \/ CapitalSetUpOn(c)
                \/ map'[c].unit = map[c].unit]_vars

\* the second rollover of a game whose map had neither tree nor Grave at the
\* start ends with a PineTree on the map: a unit starved in the first
\* rollover and its Grave was converted in the second
C32_Witness ==
    /\ call.kind = "EndTurn"
    /\ Succeeded
    /\ current_turn = 3
    /\ \E c \in DOMAIN map : map[c].unit.unit_type = "PineTree"

\* the Knight on (4,0) starved in the first rollover, and its Grave has
\* made way for the Village of the part that a capture cut off
C32_WitnessReplaced ==
    /\ call.kind = "MoveUnit"
    /\ Succeeded
    /\ current_turn = 2
    /\ map[Coord(4, 0)].unit.unit_type = "Village"

\* tile c has a neighbour that is water or lies off the map
AtWater(c) ==
    \E n \in neighbors(c) : n \notin DOMAIN map \/ map[n].surface = "Water"

\* the neighbours of tile c that hold a tree before the call
TreesAround(c) ==
    {n \in neighbors(c) \cap DOMAIN map :
        map[n].unit.unit_type \in {"PalmTree", "PineTree"}}

\* C33: at the rollover of turn t an empty land tile gains a PalmTree iff
\* t % 5 # 0 and it has a neighbour that is water or off the map and a
\* neighbour with a tree; otherwise it gains a PineTree iff t is even and two
\* or more neighbours hold trees; otherwise it stays empty.  The neighbours
\* are counted on the map as it was before the rollover, water tiles are left
\* as they were, and so is every occupied tile that holds neither a Grave nor
\* a starving unit.
C33_ForestSpread ==
    [][RolledOver =>
          \A c \in DOMAIN map :
             IF map[c].surface # "Water" /\ map[c].unit = NoUnit
             THEN IF current_turn % 5 # 0 /\ AtWater(c) /\ TreesAround(c) # {}
                  THEN map'[c].unit.unit_type = "PalmTree"
                  ELSE IF current_turn % 2 = 0 /\ Cardinality(TreesAround(c)) >= 2
                  THEN map'[c].unit.unit_type = "PineTree"
                  ELSE map'[c].unit = NoUnit
             ELSE \/ map'[c] = map[c]
                  \/ map[c].unit.unit_type = "Grave"
                  \/ Starves(coordinate_to_region[c], map[c].unit)]_vars

\* the rollover of turn 10 has grown a PineTree between two trees on the
\* coast of the row, where no PalmTree grows in a turn that 5 divides
C33_Witness ==
    /\ call.kind = "EndTurn"
    /\ Succeeded
    /\ current_turn = 11
    /\ Coord(9, 0) \in DOMAIN map
    /\ map[Coord(9, 0)].unit.unit_type = "PineTree"
    /\ map[Coord(8, 0)].unit.unit_type = "PalmTree"

\* the rollover of turn 5 has grown nothing on the tile next to the last
\* PalmTree of the row
C33_WitnessRest ==
    /\ call.kind = "EndTurn"
    /\ Succeeded
    /\ current_turn = 6
    /\ Coord(5, 0) \in DOMAIN map
    /\ map[Coord(4, 0)].unit.unit_type = "PalmTree"
    /\ map[Coord(5, 0)].unit = NoUnit

\* the rollover of turn 2 has grown a PineTree on the centre of the simple
\* map, which has no water around it (the id of the tree was issued after
\* construction, and an odd turn grows nothing there)
C33_WitnessInland ==
    /\ call.kind = "EndTurn"
    /\ Succeeded
    /\ current_turn = 3
    /\ Coord(9, 0) \notin DOMAIN map
    /\ map[Coord(0, 0)].unit.unit_type = "PineTree"
    /\ map[Coord(0, 0)].unit.id > 6 + 2

\* the call that has just ended was a PlaceNewUnit whose region id names no
\* region of the calling player
PlacesFromForeignRegion ==
    /\ call'.kind = "PlaceNewUnit"
    /\ \/ call'.region_id \notin DOMAIN regions
       \/ regions[call'.region_id].owner # call'.player

\* C34: a PlaceNewUnit whose region id names a region of another player or
\* no region at all returns an error, takes money from no region and moves
\* no tile to another region.
C34_PlaceOnlyFromOwnRegion ==
    [][PlacesFromForeignRegion =>
          /\ result'.kind \notin {"Ok", "Panic"}
          /\ region_info' = region_info
          /\ coordinate_to_region' = coordinate_to_region]_vars

\* the call that has just ended was a MoveUnit from a tile to the same tile
MovesToItself ==
    /\ call'.kind = "MoveUnit"
    /\ call'.src = call'.dst

\* C35: a MoveUnit with src = dst never merges a unit with itself and never
\* removes the unit or its unit_info: the call returns, and it returns an
\* error or leaves the unit on the tile, its type and its moves_left as they
\* were.
C35_MoveToItselfIsHarmless ==
    [][MovesToItself =>
          /\ result'.kind # "Panic"
          /\ result'.kind = "Ok" =>
                /\ call'.src \in DOMAIN map
                /\ map'[call'.src].unit = map[call'.src].unit
                /\ map[call'.src].unit # NoUnit
                /\ unit_info'[map[call'.src].unit.id] = unit_info[map[call'.src].unit.id]]_vars

\* region r is one that validate_regions counts as active: two tiles or
\* more, or a tile with a unit of whatever type
CountedByRules(r) ==
    \/ Cardinality(regions[r].coordinates) >= MIN_CONTROLLED_REGION_SIZE
    \/ \E c \in regions[r].coordinates : map[c].unit # NoUnit

\* C36: the activity flags that check_for_active_players maintains are
\* accepted by validate_regions: after construction, after every call that
\* returned and when an EndTurn has run check_for_active_players, a player
\* is marked active exactly if one of the regions of the player is a
\* region that validate_regions counts as active.
C36_FlagsAcceptedByRules ==
    (call.kind = "EndTurn" \/ result.kind # "Panic") =>
        \A p \in DOMAIN player_activity :
            player_activity[p] <=> \E r \in RegionsOf(p) : CountedByRules(r)

\* C37: after construction and after every call of act() that returned Ok,
\* active_player_num is smaller than the number of players and the player
\* at that index is marked active; so no rollover, whatever starves in it,
\* leaves the index past the end of the list or on a player marked inactive.
C37_ActivePlayerIsActive ==
    result.kind \in {"None", "Ok"} =>
        /\ active_player_num < Len(players)
        /\ player_activity[players[active_player_num + 1]]

\* a rollover in which a unit starved has returned Ok and has passed over
\* the first player of the list, who is marked inactive
C37_Witness ==
    /\ call.kind = "EndTurn"
    /\ Succeeded
    /\ current_turn = 2
    /\ ~player_activity[players[1]]
    /\ active_player_num = 1
    /\ \E c \in DOMAIN map : map[c].unit.unit_type = "Grave"

\* C38: every region of a player marked inactive has balance 0, in every
\* state: the balance that check_for_active_players set to zero is brought
\* back neither by the income of a rollover nor by a split or a merge.
C38_InactivePlayersHaveNoMoney ==
    \A p \in DOMAIN player_activity :
        ~player_activity[p] =>
            \A r \in RegionsOf(p) : region_info[r].money_balance = 0

\* a rollover has passed since a player who still owns regions was marked
\* inactive
C38_Witness ==
    /\ call.kind = "EndTurn"
    /\ Succeeded
    /\ current_turn > 1
    /\ \E p \in DOMAIN player_activity :
          /\ ~player_activity[p]
          /\ Cardinality(RegionsOf(p)) >= 2

\* C39: a player marked inactive stays marked inactive, is not the active
\* player after any step, and every region the player owns after a step is
\* a region the player owned before it, with no tile it did not have.
C39_InactiveForGood ==
    [][\A p \in DOMAIN player_activity :
          ~player_activity[p] =>
             /\ ~player_activity'[p]
             /\ active_player_num' < Len(players') =>
                    players'[active_player_num' + 1] # p
             /\ \A r \in DOMAIN regions' :
                    regions'[r].owner = p =>
                       /\ r \in DOMAIN regions
                       /\ regions[r].owner = p
                       /\ regions'[r].coordinates \subseteq regions[r].coordinates]_vars

\* the rollover has passed over the first player of the list, who was
\* marked inactive during the turn and still owns single tiles
C39_Witness ==
    /\ call.kind = "EndTurn"
    /\ Succeeded
    /\ current_turn = 2
    /\ ~player_activity[players[1]]
    /\ ActivePlayerId = players[2]
    /\ RegionsOf(players[1]) # {}
    /\ \A r \in RegionsOf(players[1]) : Cardinality(regions[r].coordinates) = 1

\* C40: winner is None as long as no turn has rolled over, and it is the
\* rollover of an EndTurn that sets it; once set it does not change; and
\* whenever it is set the winner is a player marked active.
C40_WinnerSetOnceByRollover ==
    [][/\ current_turn = 1 => winner = NO_ID
       /\ winner' # winner =>
             /\ winner = NO_ID
             /\ call'.kind = "EndTurn"
             /\ current_turn' = current_turn + 1
       /\ winner # NO_ID => winner' = winner
       /\ winner' # NO_ID =>
             /\ winner' \in DOMAIN player_activity'
             /\ player_activity'[winner']]_vars

\* the game has a winner, who is the only player marked active, and a call
\* made after the rollover that set the winner has been refused
C40_Witness ==
    /\ result.kind = "GameAlreadyFinished"
    /\ winner # NO_ID
    /\ current_turn > 1
    /\ StillActive = {winner}

====
